---- MODULE Spec2Model ----
(***************************************************************************)
(* A model of "thermal images automatic Data uploader.py": the             *)
(* deduplicating ingestion pipeline (run_pipeline and its helpers), the    *)
(* Stability Gate (wait_for_folder_stability) and the trigger loop of      *)
(* __main__, together with the file watcher and keyboard threads and the   *)
(* environment that drops image files into the watched tree.               *)
(*                                                                         *)
(* Text is modelled as sequences of one-character strings, so that the     *)
(* conversions of the code (uppercasing and filtering of the note, the     *)
(* replace/slice of the raw timestamp, strptime and strftime) are computed *)
(* character by character.                                                 *)
(***************************************************************************)
EXTENDS Integers, Sequences, FiniteSets, TLC

(***************************************************************************)
(* Bounds of the model.                                                    *)
(***************************************************************************)
\* Number of file paths (slots) the environment may ever create.
MaxFiles == 3
\* Number of injected faults (failed query, failed write, failed move, kill).
MaxFaults == 2
\* Chunk size of the uploader.  The program's value is 50 (line 35); the
\* model scales it down so that a pass over MaxFiles files has several chunks.
BATCH_SIZE == 2

(***************************************************************************)
(* Characters and strings.                                                 *)
(***************************************************************************)
\* The characters the model's texts use, in ASCII order.
Ascii ==
  << " ", "+", "-", ".", "/",
     "0", "1", "2", "3", "4", "5", "6", "7", "8", "9", ":",
     "A", "B", "C", "D", "E", "F", "G", "H", "I", "J", "K", "L", "M",
     "N", "O", "P", "Q", "R", "S", "T", "U", "V", "W", "X", "Y", "Z", "_",
     "a", "b", "c", "d", "e", "f", "g", "h", "i", "j", "k", "l", "m",
     "n", "o", "p", "q", "r", "s", "t", "u", "v", "w", "x", "y", "z" >>

\* The position of each character in Ascii.
OrdTable == [ c \in { Ascii[n] : n \in 1..Len(Ascii) } |-> CHOOSE n \in 1..Len(Ascii) : Ascii[n] = c ]

Ord(c) == OrdTable[c]

IsDigit(c) == Ord(c) >= Ord("0") /\ Ord(c) <= Ord("9")
IsUpperAlpha(c) == Ord(c) >= Ord("A") /\ Ord(c) <= Ord("Z")
IsLowerAlpha(c) == Ord(c) >= Ord("a") /\ Ord(c) <= Ord("z")

\* str.upper() on one character.
Upper(c) == IF IsLowerAlpha(c) THEN Ascii[Ord(c) - Ord("a") + Ord("A")] ELSE c

DigitVal(c) == Ord(c) - Ord("0")
DigitChar(n) == Ascii[n + Ord("0")]

\* Python's None.  No function of the program returns an empty text where it
\* could return None, so the empty sequence stands for None; both are falsy.
None == << >>

Truthy(s) == s # << >>

\* s[:n]
Take(s, n) == SubSeq(s, 1, IF Len(s) < n THEN Len(s) ELSE n)

\* Lexicographic order of Python strings: s < t.
RECURSIVE StrLess(_, _)
StrLess(s, t) ==
  IF t = << >> THEN FALSE
  ELSE IF s = << >> THEN TRUE
  ELSE IF Ord(Head(s)) < Ord(Head(t)) THEN TRUE
  ELSE IF Ord(Head(s)) > Ord(Head(t)) THEN FALSE
  ELSE StrLess(Tail(s), Tail(t))

\* min() of a non-empty set of strings.
StrMin(S) == CHOOSE s \in S : \A t \in S : t = s \/ StrLess(s, t)

\* str.replace(old, new, count) for one-character old and new.
RECURSIVE Replace(_, _, _, _)
Replace(s, old, new, count) ==
  IF s = << >> THEN << >>
  ELSE IF count > 0 /\ Head(s) = old
       THEN <<new>> \o Replace(Tail(s), old, new, count - 1)
       ELSE <<Head(s)>> \o Replace(Tail(s), old, new, count)

\* re.sub(r'[^A-Z0-9]', '', s): keep only A-Z and 0-9.
RECURSIVE KeepAlnum(_)
KeepAlnum(s) ==
  IF s = << >> THEN << >>
  ELSE IF IsUpperAlpha(Head(s)) \/ IsDigit(Head(s))
       THEN <<Head(s)>> \o KeepAlnum(Tail(s))
       ELSE KeepAlnum(Tail(s))

UpperStr(s) == [i \in 1..Len(s) |-> Upper(s[i])]

\* clean_asset_code, lines 168-175.
clean_asset_code(raw_input) ==
  IF ~Truthy(raw_input) THEN None
  ELSE LET clean == KeepAlnum(UpperStr(raw_input))
       IN IF ~Truthy(clean) THEN None ELSE clean

(***************************************************************************)
(* Dates: strptime, strftime, int().                                       *)
(***************************************************************************)
\* The value a failed conversion yields in the model (ValueError raised).
ValueError == << -1 >>

AllDigits(s) == \A i \in 1..Len(s) : IsDigit(s[i])

RECURSIVE DecVal(_)
DecVal(s) == IF s = << >> THEN 0 ELSE 10 * DecVal(SubSeq(s, 1, Len(s) - 1)) + DigitVal(s[Len(s)])

\* int(x) of a JSON value given as text: the number, or ValueError.
ToInt(s) == IF Truthy(s) /\ AllDigits(s) THEN << DecVal(s) >> ELSE ValueError

IsLeap(y) == (y % 4 = 0 /\ y % 100 # 0) \/ y % 400 = 0

DaysIn(y, m) ==
  IF m = 2 THEN (IF IsLeap(y) THEN 29 ELSE 28)
  ELSE IF m \in {4, 6, 9, 11} THEN 30 ELSE 31

\* One numeric directive of strptime matches the w characters of s from
\* position p, as the regular expression of _strptime.py reads them: two
\* digits within lo..hi, one digit from lo, or (%d only, blank) a space and a
\* digit from 1.
Field(s, p, w, lo, hi, blank) ==
  /\ p + w - 1 <= Len(s)
  /\ IF w = 2
     THEN \/ /\ IsDigit(s[p]) /\ IsDigit(s[p + 1])
             /\ DecVal(SubSeq(s, p, p + 1)) >= lo /\ DecVal(SubSeq(s, p, p + 1)) <= hi
          \/ blank /\ s[p] = " " /\ IsDigit(s[p + 1]) /\ DigitVal(s[p + 1]) >= 1
     ELSE IsDigit(s[p]) /\ DigitVal(s[p]) >= lo

\* The number a matched directive stands for.
FieldVal(s, p, w) ==
  IF w = 2 /\ IsDigit(s[p]) THEN DecVal(SubSeq(s, p, p + 1)) ELSE DigitVal(s[p + w - 1])

\* The directives after %Y, each with the literal of the format before it
\* (sep stands for the date delimiter, " " matches \s+).
Directives ==
  << [ lit |-> "sep", lo |-> 1, hi |-> 12, blank |-> FALSE ],   \* %m
     [ lit |-> "sep", lo |-> 1, hi |-> 31, blank |-> TRUE ],    \* %d
     [ lit |-> " ", lo |-> 0, hi |-> 23, blank |-> FALSE ],     \* %H
     [ lit |-> ":", lo |-> 0, hi |-> 59, blank |-> FALSE ],     \* %M
     [ lit |-> ":", lo |-> 0, hi |-> 61, blank |-> FALSE ] >>   \* %S

\* The positions a directive may start at when its literal starts at p: the
\* one after the literal, or after any run of blanks that starts at p.
AfterLiteral(s, p, c) ==
  IF c = " "
  THEN { q \in (p + 1)..(Len(s) + 1) : \A n \in p..(q - 1) : s[n] = " " }
  ELSE { q \in { p + 1 } : p <= Len(s) /\ s[p] = c }

\* The ways the pattern can go on from a partial match x (the position
\* reached and the fields read) with directive d.
Advance(s, sep, x, d) ==
  { [ p |-> q + w, v |-> Append(x.v, FieldVal(s, q, w)) ] :
      << q, w >> \in { y \in AfterLiteral(s, x.p, IF d.lit = "sep" THEN sep ELSE d.lit) \X (1..2) :
                        Field(s, y[1], y[2], d.lo, d.hi, d.blank) } }

\* The partial matches after the directives from the n-th on.
RECURSIVE Scan(_, _, _, _)
Scan(s, sep, P, n) ==
  IF n > Len(Directives) THEN P
  ELSE Scan(s, sep, UNION { Advance(s, sep, x, Directives[n]) : x \in P }, n + 1)

\* The matches of "%Y<sep>%m<sep>%d %H:%M:%S" against the whole of s (%Y
\* takes four digits, no text may be left over) that datetime() accepts: it
\* rejects year 0, a day the month does not have and the seconds 60 and 61.
Datetimes(s, sep) ==
  IF Len(s) >= 4 /\ AllDigits(SubSeq(s, 1, 4))
  THEN { x.v : x \in { y \in Scan(s, sep, { [ p |-> 5, v |-> << DecVal(SubSeq(s, 1, 4)) >> ] }, 1) :
                         /\ y.p = Len(s) + 1
                         /\ y.v[1] >= 1
                         /\ y.v[3] <= DaysIn(y.v[1], y.v[2])
                         /\ y.v[6] <= 59 } }
  ELSE { }

\* datetime.strptime(s, "%Y<sep>%m<sep>%d %H:%M:%S"): the datetime as
\* <<Y, m, d, H, M, S>>, or ValueError.
Strptime(s, sep) ==
  CHOOSE dt \in UNION { IF found = { } THEN { ValueError } ELSE found :
                        found \in { Datetimes(text, sep) : text \in { s } } } : TRUE

Pad2(n) == << DigitChar(n \div 10), DigitChar(n % 10) >>
Pad4(n) == << DigitChar(n \div 1000), DigitChar((n \div 100) % 10),
              DigitChar((n \div 10) % 10), DigitChar(n % 10) >>

\* dt.strftime("%Y-%m-%d %H:%M:%S")
Strftime(dt) ==
  Pad4(dt[1]) \o <<"-">> \o Pad2(dt[2]) \o <<"-">> \o Pad2(dt[3]) \o <<" ">>
  \o Pad2(dt[4]) \o <<":">> \o Pad2(dt[5]) \o <<":">> \o Pad2(dt[6])

\* Order of datetime values: a >= b.
RECURSIVE DtGeq(_, _)
DtGeq(a, b) ==
  IF a = << >> THEN TRUE
  ELSE IF Head(a) > Head(b) THEN TRUE
  ELSE IF Head(a) < Head(b) THEN FALSE
  ELSE DtGeq(Tail(a), Tail(b))

(***************************************************************************)
(* The image files the environment may drop: what the Metadata Extractor   *)
(* (exiftool -j -n) reports for each kind of file, and whether the Thermal *)
(* Decoder (flyr.unpack) can read it.  A tag the record lacks is a tag the *)
(* extractor did not print.                                                *)
(***************************************************************************)
\* A FLIR capture, colon-delimited timestamp with fraction and offset.
MetaColon ==
  [ ImageDescription |-> << "a", "b", "-", "1" >>,
    DateTimeOriginal |-> << "2", "0", "2", "6", ":", "0", "1", ":", "2", "1", " ", "0", "9", ":", "4", "4", ":", "4", "7", ".", "1", "5", "8", "+", "0", "2", ":", "0", "0" >>,
    CameraSerialNumber |-> << "7" >> ]
\* The same capture (same asset, second and camera), hyphen-delimited timestamp.
MetaHyphen ==
  [ ImageDescription |-> << "A", "B", "1" >>,
    DateTimeOriginal |-> << "2", "0", "2", "6", "-", "0", "1", "-", "2", "1", " ", "0", "9", ":", "4", "4", ":", "4", "7" >>,
    CameraSerialNumber |-> << "7" >> ]
\* A capture whose note holds no letter or digit.
MetaNoAsset ==
  [ ImageDescription |-> << "-", "-" >>,
    DateTimeOriginal |-> << "2", "0", "2", "6", ":", "0", "1", ":", "2", "1", " ", "0", "9", ":", "4", "4", ":", "4", "7" >>,
    CameraSerialNumber |-> << "7" >> ]
\* A jpg that is no capture: a note without letter or digit, no capture time
\* and no serial number.
MetaBare == [ ImageDescription |-> << "-", "-" >> ]
\* Another asset, a day earlier, no serial number tag.
MetaOther ==
  [ ImageDescription |-> << "c", "d", "2" >>,
    DateTimeOriginal |-> << "2", "0", "2", "6", ":", "0", "1", ":", "2", "0", " ", "1", "0", ":", "0", "0", ":", "0", "0" >> ]
\* A capture of a camera whose clock was never set.
MetaZeroDate ==
  [ ImageDescription |-> << "c", "d", "2" >>,
    DateTimeOriginal |-> << "0", "0", "0", "0", ":", "0", "0", ":", "0", "0", " ", "0", "0", ":", "0", "0", ":", "0", "0" >>,
    CameraSerialNumber |-> << "7" >> ]
\* A capture whose serial number is not a number.
MetaBadSerial ==
  [ ImageDescription |-> << "a", "b", "-", "1" >>,
    DateTimeOriginal |-> << "2", "0", "2", "6", ":", "0", "1", ":", "2", "1", " ", "0", "9", ":", "4", "4", ":", "4", "7" >>,
    CameraSerialNumber |-> << "S", "N" >> ]

Kinds == { "colon", "hyphen", "noasset", "bare", "other", "zerodate",
           "badserial", "corrupt" }

\* The extractor's record for a file of kind k.  A corrupt file carries the
\* tags of a capture and a thermal payload the decoder rejects.
Meta(k) ==
  CASE k = "colon" -> MetaColon
    [] k = "hyphen" -> MetaHyphen
    [] k = "noasset" -> MetaNoAsset
    [] k = "bare" -> MetaBare
    [] k = "other" -> MetaOther
    [] k = "zerodate" -> MetaZeroDate
    [] k = "badserial" -> MetaBadSerial
    [] k = "corrupt" -> MetaColon

\* flyr.unpack(filepath) succeeds.
Decodable(k) == k # "corrupt"

\* dict.get(key, default)
Get(m, key, default) == IF key \in DOMAIN m THEN m[key] ELSE default

(***************************************************************************)
(* Signature derivation of the Duplicate Filter, run_pipeline lines 404-417.*)
(***************************************************************************)
\* raw_asset = m_data.get("ImageDescription", ""); asset = clean_asset_code(..)
FilterAsset(m) == clean_asset_code(Get(m, "ImageDescription", << >>))

\* ts = str(m_data.get("DateTimeOriginal", "")).replace(":", "-", 2)[:19]
FilterTs(m) == Take(Replace(Get(m, "DateTimeOriginal", << >>), ":", "-", 2), 19)

\* serial = int(m_data.get("CameraSerialNumber", 0)), 0 on any exception
FilterSerial(m) ==
  LET v == ToInt(Get(m, "CameraSerialNumber", << "0" >>))
  IN IF v = ValueError THEN 0 ELSE v[1]

\* current_sig = (asset, ts, serial)
current_sig(m) == << FilterAsset(m), FilterTs(m), FilterSerial(m) >>

(***************************************************************************)
(* The Row Builder, process_image lines 218-286: a one-element sequence    *)
(* holding the row, or the empty sequence for None.                        *)
(***************************************************************************)
\* The two strptime attempts of lines 236-244.
ParseTimestamp(text) ==
  LET clean_ts == Take(text, 19)
      colon == Strptime(clean_ts, ":")
  IN IF colon # ValueError THEN colon ELSE Strptime(clean_ts, "-")

process_image(filepath, metadata_entry, decodable) ==
  LET asset_str == clean_asset_code(Get(metadata_entry, "ImageDescription", None))
      serial_int == ToInt(Get(metadata_entry, "CameraSerialNumber", << "0" >>))
      dt_obj == ParseTimestamp(Get(metadata_entry, "DateTimeOriginal", << >>))
  IN IF ~Truthy(asset_str) THEN << >>
     ELSE IF serial_int = ValueError THEN << >>
     ELSE IF dt_obj = ValueError THEN << >>
     ELSE IF ~decodable THEN << >>
     ELSE << [ Timestamp |-> Strftime(dt_obj),
               Filename |-> filepath,
               Camera_Serial |-> serial_int[1],
               Asset_Name |-> asset_str ] >>

\* df['Timestamp'] = pd.to_datetime(df['Timestamp'], ...), line 481: the rows
\* as they are handed to the store, Timestamp a datetime.
ToFrame(rows) ==
  [ n \in 1..Len(rows) |-> [ rows[n] EXCEPT !.Timestamp = Strptime(rows[n].Timestamp, "-") ] ]

(***************************************************************************)
(* The Data Store's answer, get_existing_signatures lines 95-117.          *)
(***************************************************************************)
\* The Signature of a stored row, lines 108-112: (Asset, Timestamp text, Serial).
RowSig(r) == << r.Asset_Name, Strftime(r.Timestamp), r.Camera_Serial >>

\* Rows with Timestamp >= start, as the set of their signatures.
SignaturesSince(rows, start) ==
  { RowSig(rows[n]) : n \in { j \in 1..Len(rows) : DtGeq(rows[j].Timestamp, start) } }

\* query_ok is FALSE when pd.read_sql raises for a reason of the store's own.
\* The store also raises when start_date_str is not a date it can convert.
\* Either way the function logs a warning and returns the empty set.
get_existing_signatures(rows, start_date_str, query_ok) ==
  LET start == Strptime(start_date_str, "-")
  IN IF ~query_ok \/ start = ValueError THEN { }
     ELSE SignaturesSince(rows, start)

(***************************************************************************)
(* State.                                                                  *)
(***************************************************************************)
VARIABLES
  fs,               \* the file system: for each path, where the file is
  store,            \* the rows of table ThermalReadings, in insertion order
  pc,               \* the main thread's position
  TRIGGER_EVENT,    \* threading.Event, line 48
  fsEvents,         \* create events the observer thread has not handled yet
  observing,        \* the observer and keyboard threads are running
  extract,          \* what the Metadata Extractor call of this pass did
  meta_dict,        \* run_pipeline: paths the metadata scan returned
  existing,         \* run_pipeline: the working signature set
  files_to_process, \* run_pipeline: the to-process list
  i,                \* run_pipeline: start of the current chunk
  new_rows,         \* run_pipeline: rows built for the current chunk
  uploaded_paths,   \* run_pipeline: paths of the rows built for the chunk
  k,                \* run_pipeline: number of uploaded_paths already moved
  log,              \* warnings and errors this pass has logged so far
  failed_now,       \* history: paths of the chunks whose write failed in this pass
  retry,            \* history: paths of failed chunks no clean pass has ended since
  gate_locked,      \* history: paths locked since the current gate check began
  faults,           \* faults injected so far
  raw_ts,           \* the raw text (or value) a function is called with on its own
  row,              \* what that call returned
  observed,         \* FileTrigger: events the observer has not dispatched yet
  event,            \* FileTrigger: the event its handler was last called with, or None
  disk,             \* move_to_archive: the file each path of the disk holds
  clock,            \* move_to_archive: time.time(), in whole seconds
  response          \* get_alexandria_weather: what the weather service did, or None

vars == << fs, store, pc, TRIGGER_EVENT, fsEvents, observing, extract,
           meta_dict, existing, files_to_process, i, new_rows, uploaded_paths,
           k, log, failed_now, retry, gate_locked, faults, raw_ts, row,
           observed, event, disk, clock, response >>

\* The variables of the calls that are looked at on their own.
alone_vars == << raw_ts, row, observed, event, disk, clock, response >>

\* The variables of the program as a whole.
program_vars == << fs, store, pc, TRIGGER_EVENT, fsEvents, observing, extract,
                   meta_dict, existing, files_to_process, i, new_rows,
                   uploaded_paths, k, log, failed_now, retry, gate_locked, faults >>

pass_vars == << extract, meta_dict, existing, files_to_process, i, new_rows,
                uploaded_paths, k, log, failed_now, retry >>

Slots == 1..MaxFiles

NoFile == [ loc |-> "none", kind |-> "none", recent |-> FALSE, locked |-> FALSE ]

\* The image files under the watched root outside the archive subtree.
Watched == { s \in Slots : fs[s].loc = "watched" }
Archived == { s \in Slots : fs[s].loc = "archive" }

RECURSIVE SortedSeq(_)
SortedSeq(S) ==
  IF S = { } THEN << >>
  ELSE LET m == CHOOSE x \in S : \A y \in S : x <= y
       IN << m >> \o SortedSeq(S \ { m })

\* iter_all_jpgs, lines 305-314: os.walk lists the paths in a stable order.
iter_all_jpgs == SortedSeq(Watched)

Range(q) == { q[n] : n \in 1..Len(q) }

\* The program with nothing dropped yet, an empty table and a main thread at
\* position at; spent is the part of the fault budget that is already used up.
Program(spent, at) ==
  /\ fs = [ s \in Slots |-> NoFile ]
  /\ store = << >>
  /\ pc = at
  /\ TRIGGER_EVENT = FALSE
  /\ fsEvents = 0
  /\ observing = FALSE
  /\ extract = "none"
  /\ meta_dict = { }
  /\ existing = { }
  /\ files_to_process = << >>
  /\ i = 0
  /\ new_rows = << >>
  /\ uploaded_paths = << >>
  /\ k = 0
  /\ log = { }
  /\ failed_now = { }
  /\ retry = { }
  /\ gate_locked = { }
  /\ faults = spent

\* No call of process_image, no event of the observer, no disk of
\* move_to_archive and no weather lookup is looked at on its own.
NoRowBuilderCall == raw_ts = << >> /\ row = << >>
NoEventSeen == observed = << >> /\ event = << >>
NoDiskSeen == disk = << >> /\ clock = 0
NoWeatherCall == response = << >>

\* The process starts at line 538.
Boot(spent) ==
  /\ Program(spent, "validate")
  /\ NoRowBuilderCall
  /\ NoEventSeen
  /\ NoDiskSeen
  /\ NoWeatherCall

Init == Boot(0)

\* run_pipeline returns: its locals are gone.  clean says that the pass
\* queried the store and logged no failed query, write or move; failed are
\* the paths of its failed chunks.
Return(clean, failed) ==
  /\ pc' = "returned"
  /\ extract' = "none"
  /\ meta_dict' = { }
  /\ existing' = { }
  /\ files_to_process' = << >>
  /\ i' = 0
  /\ new_rows' = << >>
  /\ uploaded_paths' = << >>
  /\ k' = 0
  /\ log' = { }
  /\ failed_now' = { }
  /\ retry' = IF clean THEN { } ELSE retry \cup failed

(***************************************************************************)
(* move_to_archive, lines 348-360.  moved is FALSE when shutil.move raises;*)
(* the function then logs the error and leaves the file where it is.       *)
(***************************************************************************)
move_to_archive(files, filepath, moved) ==
  IF moved
  THEN [ files EXCEPT ![filepath] = [ @ EXCEPT !.loc = "archive", !.recent = FALSE, !.locked = FALSE ] ]
  ELSE files

\* move_to_archive applied to each path of a list, the paths in bad failing.
RECURSIVE MoveAll(_, _, _)
MoveAll(files, paths, bad) ==
  IF paths = << >> THEN files
  ELSE MoveAll(move_to_archive(files, Head(paths), Head(paths) \notin bad), Tail(paths), bad)

\* The paths among bad whose failed move is a fault of the file system.  The
\* move of a file its writer still holds open succeeds or raises as the
\* platform decides, and is no fault.
Faulty(bad) == { s \in bad : ~fs[s].locked }

\* The sets of paths whose move may fail within the fault budget.
FailingSubsets(paths) ==
  { bad \in SUBSET Range(paths) : faults + Cardinality(Faulty(bad)) <= MaxFaults }

\* The log after the moves of a step, line 359.
LogMoves(lg, bad) == IF bad = { } THEN lg ELSE lg \cup { "archive_error" }

(***************************************************************************)
(* run_pipeline, lines 367-492.                                            *)
(***************************************************************************)
\* What the external extractor process can do, get_metadata lines 136-165.
ExtractorOutcomes == { "ok", "timeout", "error", "empty", "unparsable" }

\* A get_metadata that answers with the files of the tree whatever the
\* extractor did.
get_metadata_regardless(outcome) == Watched

\* get_metadata: the paths of the records returned (those outside the archive),
\* or the empty list on a timeout, an error or empty or unparsable output.
get_metadata(outcome) == IF outcome = "ok" THEN Watched ELSE { }

\* The entry line 384 appends to timestamps for one record: a one-element
\* sequence, or none when the record has no DateTimeOriginal.
TimestampEntry(m) ==
  IF "DateTimeOriginal" \in DOMAIN m
  THEN << Replace(m.DateTimeOriginal, ":", "-", 2) >>
  ELSE << >>

\* The conversions of the code, computed once for each kind of file; "none"
\* stands for a path the metadata scan did not return (meta_dict.get(path, {})).
NoMeta == << >>
MetaOrNone(kd) == IF kd = "none" THEN NoMeta ELSE Meta(kd)
KindTimestamp == [ kd \in Kinds |-> TimestampEntry(Meta(kd)) ]
KindSig == [ kd \in Kinds \cup { "none" } |-> current_sig(MetaOrNone(kd)) ]
KindRow == [ kd \in Kinds \cup { "none" } |->
               process_image(0, MetaOrNone(kd), kd # "none" /\ Decodable(kd)) ]

\* The kind under which a path is looked up: meta_dict.get(path, {}), lines
\* 404 and 463.
m_kind(path) == IF path \in meta_dict THEN fs[path].kind ELSE "none"

\* timestamps, lines 377-384, of the records of the paths in meta.
Timestamps(meta) ==
  { KindTimestamp[fs[s].kind][1] : s \in { x \in meta : KindTimestamp[fs[x].kind] # << >> } }

\* query_start, lines 390-391.
query_start ==
  Take(StrMin(Timestamps(meta_dict)), 10)
    \o << " ", "0", "0", ":", "0", "0", ":", "0", "0" >>

\* Line 370: the extractor runs over the watched tree.
CallExtractor ==
  /\ pc = "get_metadata"
  /\ \E outcome \in ExtractorOutcomes :
       /\ extract' = outcome
       /\ meta_dict' = get_metadata(outcome)
  /\ pc' = "map"
  /\ UNCHANGED << alone_vars, fs, store, TRIGGER_EVENT, fsEvents, observing, existing,
                  files_to_process, i, new_rows, uploaded_paths, k, log,
                  failed_now, retry, gate_locked, faults >>

\* Lines 371-387: the early returns on an empty scan or no timestamp at all.
MapMetadata ==
  /\ pc = "map"
  /\ IF meta_dict = { } \/ Timestamps(meta_dict) = { }
     THEN Return(FALSE, { })
     ELSE /\ pc' = "query"
          /\ extract' = "none"
          /\ UNCHANGED << meta_dict, existing, files_to_process, i, new_rows,
                          uploaded_paths, k, log, failed_now, retry >>
  /\ UNCHANGED << alone_vars, fs, store, TRIGGER_EVENT, fsEvents, observing, gate_locked, faults >>

\* A query step that also seeds the working set with the signatures of the
\* files whose write was attempted before.
QueryStoreRemembers ==
  /\ pc = "query"
  /\ existing' = get_existing_signatures(store, query_start, TRUE)
                    \cup { KindSig[fs[s].kind] : s \in retry }
  /\ pc' = "filter"
  /\ UNCHANGED << alone_vars, fs, store, TRIGGER_EVENT, fsEvents, observing, extract,
                  meta_dict, files_to_process, i, new_rows, uploaded_paths, k, log,
                  failed_now, retry, gate_locked, faults >>

\* Lines 389-397.  get_existing_signatures never raises, so the except of
\* line 395 is never taken; its own except logs a warning (line 116).
QueryStore ==
  /\ pc = "query"
  /\ \E query_ok \in BOOLEAN :
       /\ query_ok \/ faults < MaxFaults
       /\ existing' = get_existing_signatures(store, query_start, query_ok)
       /\ log' = IF query_ok /\ Strptime(query_start, "-") # ValueError
                 THEN log ELSE log \cup { "db_warning" }
       /\ faults' = IF query_ok THEN faults ELSE faults + 1
  /\ pc' = "filter"
  /\ UNCHANGED << alone_vars, fs, store, TRIGGER_EVENT, fsEvents, observing, extract,
                  meta_dict, files_to_process, i, new_rows, uploaded_paths, k,
                  failed_now, retry, gate_locked >>

\* A filter that forwards every listed file and archives none.
FilterForwardsAll(listing, ex, acc, dups) ==
  [ existing |-> ex, files_to_process |-> listing, duplicates |-> << >> ]

\* The loop of lines 402-430 over the listing: the working set it ends with,
\* the to-process list and the paths it handed to move_to_archive.
RECURSIVE FilterFrom(_, _, _, _)
FilterFrom(listing, ex, acc, dups) ==
  IF listing = << >>
  THEN [ existing |-> ex, files_to_process |-> acc, duplicates |-> dups ]
  ELSE LET full_path == Head(listing)
           sig == KindSig[m_kind(full_path)]
           keyed == Truthy(sig[1]) /\ Truthy(sig[2])
       IN IF keyed /\ sig \in ex
          THEN FilterFrom(Tail(listing), ex, acc, Append(dups, full_path))
          ELSE FilterFrom(Tail(listing),
                          IF keyed THEN ex \cup { sig } ELSE ex,
                          Append(acc, full_path), dups)

\* Lines 399-434.
FilterFiles ==
  /\ pc = "filter"
  /\ LET r == FilterFrom(iter_all_jpgs, existing, << >>, << >>)
     IN \E bad \in FailingSubsets(r.duplicates) :
          /\ fs' = MoveAll(fs, r.duplicates, bad)
          /\ faults' = faults + Cardinality(Faulty(bad))
          /\ IF r.files_to_process = << >>
             THEN Return(LogMoves(log, bad) = { }, { })
             ELSE /\ pc' = "build"
                  /\ existing' = r.existing
                  /\ files_to_process' = r.files_to_process
                  /\ i' = 0
                  /\ log' = LogMoves(log, bad)
                  /\ UNCHANGED << extract, meta_dict, new_rows, uploaded_paths,
                                  k, failed_now, retry >>
  /\ UNCHANGED << alone_vars, store, TRIGGER_EVENT, fsEvents, observing, gate_locked >>

\* A slice without its upper end: the rest of the list.
ChunkToEnd == SubSeq(files_to_process, i + 1, Len(files_to_process))

\* chunk = files_to_process[i: i + BATCH_SIZE], line 458.
Chunk ==
  SubSeq(files_to_process, i + 1,
         IF i + BATCH_SIZE < Len(files_to_process) THEN i + BATCH_SIZE
         ELSE Len(files_to_process))

\* The row process_image builds for a path of the chunk (line 464).
RowOf(fpath) ==
  LET r == KindRow[m_kind(fpath)]
  IN IF r = << >> THEN << >> ELSE << [ r[1] EXCEPT !.Filename = fpath ] >>

RECURSIVE RowsOf(_)
RowsOf(paths) == IF paths = << >> THEN << >> ELSE RowOf(Head(paths)) \o RowsOf(Tail(paths))

HasRow(fpath) == RowOf(fpath) # << >>

\* An else branch that is never taken.
HasNoRowNever(fpath) == FALSE
HasNoRow(fpath) == RowOf(fpath) = << >>

\* The end of one iteration of the loop of line 457, with the log and the
\* failed paths as the iteration leaves them: the next chunk, or the end of
\* the pass.
ChunkDone(lg, failed) ==
  IF i + BATCH_SIZE >= Len(files_to_process)
  THEN Return(lg = { }, failed)
  ELSE /\ pc' = "build"
       /\ i' = i + BATCH_SIZE
       /\ new_rows' = << >>
       /\ uploaded_paths' = << >>
       /\ k' = 0
       /\ log' = lg
       /\ failed_now' = failed
       /\ UNCHANGED << extract, meta_dict, existing, files_to_process, retry >>

\* A chunk loop that gives the pass up when a row cannot be built.
BuildChunkAborts ==
  /\ pc = "build"
  /\ IF SelectSeq(Chunk, HasNoRow) # << >>
     THEN Return(FALSE, failed_now)
     ELSE /\ pc' = "write"
          /\ new_rows' = RowsOf(Chunk)
          /\ uploaded_paths' = Chunk
          /\ UNCHANGED << extract, meta_dict, existing, files_to_process,
                          i, k, log, failed_now, retry >>
  /\ UNCHANGED << alone_vars, fs, faults, store, TRIGGER_EVENT, fsEvents, observing,
                  gate_locked >>

\* Lines 458-471: build the rows of the chunk; a path without a row is moved
\* to the archive at once.
BuildChunk ==
  /\ pc = "build"
  /\ LET built == SelectSeq(Chunk, HasRow)
         rowless == SelectSeq(Chunk, HasNoRow)
     IN \E bad \in FailingSubsets(rowless) :
          /\ fs' = MoveAll(fs, rowless, bad)
          /\ faults' = faults + Cardinality(Faulty(bad))
          /\ IF built = << >>
             THEN ChunkDone(LogMoves(log, bad), failed_now)
             ELSE /\ pc' = "write"
                  /\ new_rows' = RowsOf(built)
                  /\ uploaded_paths' = built
                  /\ log' = LogMoves(log, bad)
                  /\ UNCHANGED << extract, meta_dict, existing, files_to_process,
                                  i, k, failed_now, retry >>
  /\ UNCHANGED << alone_vars, store, TRIGGER_EVENT, fsEvents, observing, gate_locked >>

\* A write with if_exists='replace': the table holds the frame alone.
to_sql_replace(rows, frame, write_ok) == IF write_ok THEN frame ELSE rows

\* df.to_sql(..., if_exists='append'), line 484: one transaction that appends
\* every row of the frame, or raises and appends none.
to_sql(rows, frame, write_ok) == IF write_ok THEN rows \o frame ELSE rows

\* A try whose failed write ends the pass.
AfterWriteAborts(write_ok) ==
  IF write_ok
  THEN /\ pc' = "archive"
       /\ UNCHANGED pass_vars
  ELSE Return(FALSE, failed_now \cup Range(uploaded_paths))

\* A write whose exception is not caught and ends the process.
AfterWriteRaises(write_ok) ==
  /\ pc' = IF write_ok THEN "archive" ELSE "exited"
  /\ UNCHANGED pass_vars

\* A try that moves the files of the chunk whether or not the write returned.
AfterWriteArchiveAnyway(write_ok) ==
  /\ pc' = "archive"
  /\ UNCHANGED pass_vars

\* The try of lines 483-489: the moves follow a write that returned; a write
\* that raised is logged and the loop goes on with the next chunk.
AfterWrite(write_ok) ==
  IF write_ok
  THEN /\ pc' = "archive"
       /\ UNCHANGED pass_vars
  ELSE ChunkDone(log \cup { "chunk_failed" }, failed_now \cup Range(uploaded_paths))

\* Lines 473-485.
WriteChunk ==
  /\ pc = "write"
  /\ \E write_ok \in BOOLEAN :
       /\ write_ok \/ faults < MaxFaults
       /\ store' = to_sql(store, ToFrame(new_rows), write_ok)
       /\ faults' = IF write_ok THEN faults ELSE faults + 1
       /\ AfterWrite(write_ok)
  /\ UNCHANGED << alone_vars, fs, TRIGGER_EVENT, fsEvents, observing, gate_locked >>

\* One iteration of the loop of lines 486-487.
ArchiveUploaded ==
  /\ pc = "archive"
  /\ \E moved \in BOOLEAN :
       /\ moved \/ faults < MaxFaults \/ fs[uploaded_paths[k + 1]].locked
       /\ fs' = move_to_archive(fs, uploaded_paths[k + 1], moved)
       /\ faults' = faults + Cardinality(Faulty(IF moved THEN { } ELSE { uploaded_paths[k + 1] }))
       /\ LET lg == IF moved THEN log ELSE log \cup { "archive_error" }
          IN IF k + 1 = Len(uploaded_paths)
             THEN ChunkDone(lg, failed_now)
             ELSE /\ k' = k + 1
                  /\ log' = lg
                  /\ UNCHANGED << pc, extract, meta_dict, existing, files_to_process,
                                  i, new_rows, uploaded_paths, failed_now, retry >>
  /\ UNCHANGED << alone_vars, store, TRIGGER_EVENT, fsEvents, observing, gate_locked >>

(***************************************************************************)
(* The Stability Gate, wait_for_folder_stability lines 317-345.            *)
(***************************************************************************)
\* is_file_locked, lines 294-302: opening the file for append fails.
is_file_locked(filepath) == fs[filepath].locked

\* An age test that skips no file.
OlderThanNothing(filepath) == FALSE

\* An age test that skips every file.
OlderThanAnything(filepath) == TRUE

\* time.time() - os.path.getmtime(full_path) > 60, line 332.
OlderThan60s(filepath) == ~fs[filepath].recent

\* locked_files after one walk of the tree, lines 323-337.
locked_files == { s \in Watched : ~OlderThan60s(s) /\ is_file_locked(s) }

\* One walk, lines 323-340: stable (True, and line 575 calls run_pipeline)
\* when no probed file is locked.
GatePoll ==
  /\ pc = "gate"
  /\ IF locked_files = { }
     THEN pc' = "get_metadata" /\ gate_locked' = { }
     ELSE pc' = "gate_sleep" /\ UNCHANGED gate_locked
  /\ UNCHANGED << alone_vars, fs, store, TRIGGER_EVENT, fsEvents, observing, pass_vars, faults >>

\* Lines 343 and 322: sleep a second, then walk again, or give up when the
\* timeout has passed (False: line 577 logs and the loop waits again).
GateSleep ==
  /\ pc = "gate_sleep"
  /\ \/ pc' = "gate" /\ UNCHANGED gate_locked
     \/ pc' = "wait" /\ gate_locked' = { }
  /\ UNCHANGED << alone_vars, fs, store, TRIGGER_EVENT, fsEvents, observing, pass_vars, faults >>

(***************************************************************************)
(* __main__, lines 538-580.                                                *)
(***************************************************************************)
\* What the process finds when it starts: the watched root exists, the
\* archive folder exists or can be created, the extractor executable is found,
\* DB_PASS is set.
StartupEnvironments ==
  [ root : BOOLEAN, archive : BOOLEAN, exiftool : BOOLEAN, db_pass : BOOLEAN ]

\* A check that finds nothing wrong.
validate_nothing(env) == "ok"

\* validate_environment, lines 65-86: "ok" for True, else the error it logs
\* before it returns False.
validate_environment(env) ==
  IF ~env.root THEN "input_folder_missing"
  ELSE IF ~env.archive THEN "archive_folder_not_created"
  ELSE IF ~env.exiftool THEN "exiftool_not_found"
  ELSE IF ~env.db_pass THEN "db_pass_missing"
  ELSE "ok"

\* The locals of run_pipeline other than the log.
quiet_vars == << extract, meta_dict, existing, files_to_process, i, new_rows,
                 uploaded_paths, k, failed_now, retry >>

\* Lines 542-544.
ValidateEnvironment ==
  /\ pc = "validate"
  /\ \E env \in StartupEnvironments :
       LET checked == validate_environment(env)
       IN IF checked = "ok"
          THEN pc' = "connect" /\ log' = log
          ELSE pc' = "exited" /\ log' = { checked }
  /\ UNCHANGED << alone_vars, fs, store, TRIGGER_EVENT, fsEvents, observing, quiet_vars,
                  gate_locked, faults >>

\* A startup that goes from the connection test straight to the observer.
ConnectDbNoPass ==
  /\ pc = "connect"
  /\ pc' = "start_observer"
  /\ UNCHANGED << alone_vars, fs, store, TRIGGER_EVENT, fsEvents, observing, pass_vars,
                  gate_locked, faults >>

\* Lines 549-560: the engine is created and the connection tested (it fails
\* when the store is unreachable or a credential is missing or wrong), then
\* the startup pass.
ConnectDb ==
  /\ pc = "connect"
  /\ \E connected \in BOOLEAN :
       IF connected
       THEN pc' = "get_metadata" /\ log' = log
       ELSE pc' = "exited" /\ log' = { "critical_db_error" }
  /\ UNCHANGED << alone_vars, fs, store, TRIGGER_EVENT, fsEvents, observing, quiet_vars,
                  gate_locked, faults >>

\* A return from the pass that also clears the flag.
ResumeClears ==
  /\ pc = "returned"
  /\ pc' = IF observing THEN "wait" ELSE "start_observer"
  /\ TRIGGER_EVENT' = FALSE
  /\ UNCHANGED << alone_vars, fs, store, fsEvents, observing, pass_vars,
                  gate_locked, faults >>

\* run_pipeline has returned: to line 562 after the startup pass (line 560),
\* to line 570 after a pass of the loop (line 575).
Resume ==
  /\ pc = "returned"
  /\ pc' = IF observing THEN "wait" ELSE "start_observer"
  /\ UNCHANGED << alone_vars, fs, store, TRIGGER_EVENT, fsEvents, observing, pass_vars,
                  gate_locked, faults >>

\* Lines 562-567.
StartThreads ==
  /\ pc = "start_observer"
  /\ observing' = TRUE
  /\ pc' = "wait"
  /\ UNCHANGED << alone_vars, fs, store, TRIGGER_EVENT, fsEvents, pass_vars, gate_locked, faults >>

\* TRIGGER_EVENT.wait(timeout=1) returns True, line 571.
WaitTrigger ==
  /\ pc = "wait"
  /\ TRIGGER_EVENT
  /\ pc' = "debounce"
  /\ UNCHANGED << alone_vars, fs, store, TRIGGER_EVENT, fsEvents, observing, pass_vars,
                  gate_locked, faults >>

\* TRIGGER_EVENT.wait(timeout=1) returns False: the loop waits again.
WaitTimeout ==
  /\ pc = "wait"
  /\ ~TRIGGER_EVENT
  /\ pc' = "wait"
  /\ UNCHANGED << alone_vars, fs, store, TRIGGER_EVENT, fsEvents, observing, pass_vars,
                  gate_locked, faults >>

\* time.sleep(1), line 572.
Debounce ==
  /\ pc = "debounce"
  /\ pc' = "clear"
  /\ UNCHANGED << alone_vars, fs, store, TRIGGER_EVENT, fsEvents, observing, pass_vars,
                  gate_locked, faults >>

\* A loop that goes to the gate and leaves the flag as it is.
ClearTriggerKeeps ==
  /\ pc = "clear"
  /\ pc' = "gate"
  /\ gate_locked' = locked_files
  /\ UNCHANGED << alone_vars, fs, store, TRIGGER_EVENT, fsEvents, observing, pass_vars,
                  faults >>

\* TRIGGER_EVENT.clear(), line 573, and the call of line 574.
ClearTrigger ==
  /\ pc = "clear"
  /\ TRIGGER_EVENT' = FALSE
  /\ pc' = "gate"
  /\ gate_locked' = locked_files
  /\ UNCHANGED << alone_vars, fs, store, fsEvents, observing, pass_vars, faults >>

(***************************************************************************)
(* The other threads: FileTrigger (lines 499-515) on the observer thread,  *)
(* keyboard_listener (lines 518-526).                                      *)
(***************************************************************************)
\* A handler that calls run_pipeline itself instead of setting the flag.
HandleEventRunsPass ==
  /\ fsEvents > 0
  /\ fsEvents' = fsEvents - 1
  /\ pc' = "get_metadata"
  /\ UNCHANGED << alone_vars, fs, store, TRIGGER_EVENT, observing, pass_vars, gate_locked, faults >>

\* on_created for a .jpg path outside the archive.
HandleEvent ==
  /\ fsEvents > 0
  /\ fsEvents' = fsEvents - 1
  /\ TRIGGER_EVENT' = TRUE
  /\ UNCHANGED << alone_vars, fs, store, pc, observing, pass_vars, gate_locked, faults >>

ManualTrigger ==
  /\ observing
  /\ TRIGGER_EVENT' = TRUE
  /\ UNCHANGED << alone_vars, fs, store, pc, fsEvents, observing, pass_vars, gate_locked, faults >>

(***************************************************************************)
(* The environment: the camera sync that writes files into the watched     *)
(* tree, the passing of time, and the operator who stops and starts the    *)
(* process.                                                                *)
(***************************************************************************)
\* The file system with a new image file of a kind at a free path.
Put(s, kind, held) ==
  [ fs EXCEPT ![s] = [ loc |-> "watched", kind |-> kind, recent |-> TRUE, locked |-> held ] ]

\* The kinds of file dropped where the pipeline is looked at.
PipelineKinds == { "colon", "hyphen", "noasset", "bare" }

\* A complete image file appears.  Whether and when the observer reports it
\* is left open: ManualTrigger raises the flag at any time.
DropImage ==
  \E s \in Slots, kind \in PipelineKinds :
    /\ fs[s].loc = "none"
    /\ fs' = Put(s, kind, FALSE)
    /\ UNCHANGED << alone_vars, store, pc, TRIGGER_EVENT, fsEvents, observing, pass_vars,
                    gate_locked, faults >>

\* The kinds of file dropped where the loop and the gate are looked at.
LoopKinds == { "colon" }

\* An image file appears, its writer possibly still holding it open; a
\* running observer queues the create event.
DropCapture ==
  \E s \in Slots, kind \in LoopKinds, held \in BOOLEAN :
    /\ fs[s].loc = "none"
    /\ fs' = Put(s, kind, held)
    /\ fsEvents' = IF observing THEN fsEvents + 1 ELSE fsEvents
    /\ UNCHANGED << alone_vars, store, pc, TRIGGER_EVENT, observing, pass_vars, gate_locked, faults >>

\* The writer closes the file.
Release ==
  \E s \in Watched :
    /\ fs[s].locked
    /\ fs' = [ fs EXCEPT ![s].locked = FALSE ]
    /\ gate_locked' = gate_locked \ { s }
    /\ UNCHANGED << alone_vars, store, pc, TRIGGER_EVENT, fsEvents, observing, pass_vars, faults >>

\* The file's last modification becomes more than 60 seconds old.
Age ==
  \E s \in Watched :
    /\ fs[s].recent
    /\ fs' = [ fs EXCEPT ![s].recent = FALSE ]
    /\ UNCHANGED << alone_vars, store, pc, TRIGGER_EVENT, fsEvents, observing, pass_vars,
                    gate_locked, faults >>

\* The process is stopped (killed, or interrupted: lines 578-580).
Kill ==
  /\ pc # "exited"
  /\ faults < MaxFaults
  /\ faults' = faults + 1
  /\ pc' = "exited"
  /\ TRIGGER_EVENT' = FALSE
  /\ fsEvents' = 0
  /\ observing' = FALSE
  /\ gate_locked' = { }
  /\ extract' = "none"
  /\ meta_dict' = { }
  /\ existing' = { }
  /\ files_to_process' = << >>
  /\ i' = 0
  /\ new_rows' = << >>
  /\ uploaded_paths' = << >>
  /\ k' = 0
  /\ log' = { }
  /\ failed_now' = { }
  /\ retry' = retry \cup failed_now
  /\ UNCHANGED << alone_vars, fs, store >>

\* The process is started again.
Restart ==
  /\ pc = "exited"
  /\ pc' = "validate"
  /\ log' = { }
  /\ UNCHANGED << alone_vars, fs, store, TRIGGER_EVENT, fsEvents, observing, quiet_vars,
                  gate_locked, faults >>

\* run_pipeline is called again by the loop (line 575): a trigger was seen
\* and the gate reported stable.
LoopPass ==
  /\ pc = "returned"
  /\ pc' = "get_metadata"
  /\ UNCHANGED << alone_vars, fs, store, TRIGGER_EVENT, fsEvents, observing, pass_vars,
                  gate_locked, faults >>

\* The startup of the main thread.
Startup == ValidateEnvironment \/ ConnectDb

\* The loop of the main thread.
Loop ==
  \/ Resume \/ StartThreads
  \/ WaitTrigger \/ WaitTimeout \/ Debounce \/ ClearTrigger
  \/ GatePoll \/ GateSleep

\* run_pipeline, on the main thread.
Pipeline ==
  \/ CallExtractor \/ MapMetadata \/ QueryStore \/ FilterFiles
  \/ BuildChunk \/ WriteChunk \/ ArchiveUploaded

\* Every sequence of calls of run_pipeline, the startup pass and then the
\* passes of the loop, over complete files: when the loop calls is left open.
Next ==
  \/ Startup \/ LoopPass \/ Pipeline
  \/ DropImage \/ Kill \/ Restart

Spec == Init /\ [][Next]_vars

\* The whole program: the main thread with its loop and its two helper
\* threads, over files that may still be written, with a store and a file
\* system that do not fail (the fault budget is spent from the start).
NextLoop ==
  \/ Startup \/ Loop \/ Pipeline
  \/ HandleEvent \/ ManualTrigger
  \/ DropCapture \/ Release \/ Age \/ Restart

InitLoop == Boot(MaxFaults)

SpecLoop == InitLoop /\ [][NextLoop]_vars

(***************************************************************************)
(* Signatures of files and of the store, as the properties below use them. *)
(***************************************************************************)
\* The rows process_image builds for each kind of file, as handed to the store.
KindFrame == [ kd \in Kinds \cup { "none" } |-> ToFrame(KindRow[kd]) ]

\* A file of this kind yields a Reading.
Builds(kd) == KindFrame[kd] # << >>

\* The Signature of the Reading of a file of this kind.
ReadingSig(kd) == RowSig(KindFrame[kd][1])

\* The signatures the rows of a table hold.
StoreSigs(rows) == { RowSig(rows[n]) : n \in 1..Len(rows) }

\* The rows of a table that hold a signature.
RowsWith(rows, sig) == { n \in 1..Len(rows) : RowSig(rows[n]) = sig }

\* The rows a step appended.
Appended == { n \in 1..Len(store') : n > Len(store) }

\* The scanned files of the tree that yield a Reading.
ScannedReadings == { s \in Watched \cap meta_dict : Builds(fs[s].kind) }

\* The note of a file of this kind normalizes to nothing.
NoAsset(kd) == ~Truthy(clean_asset_code(Get(Meta(kd), "ImageDescription", None)))

\* Some file of the tree is recent and held open by its writer.
RecentLocked == \E s \in Slots : fs[s].loc = "watched" /\ fs[s].recent /\ fs[s].locked

(***************************************************************************)
(* C1.  The Data Store never holds two rows with the same Signature,       *)
(* whatever passes, failed writes, failed moves, failed queries, restarts  *)
(* and re-dropped files came before.                                       *)
(***************************************************************************)
C1_NoDuplicateSignatures ==
  \A a, b \in 1..Len(store) : a # b => RowSig(store[a]) # RowSig(store[b])

(***************************************************************************)
(* C2.  A file whose row was built is moved to the archive only after the  *)
(* write of its chunk returned: at the move the rows of the chunk are the  *)
(* last rows of the store.  A write that fails appends no row, and the     *)
(* files of a failed chunk are in the watched tree for the rest of the     *)
(* pass and when it ends.                                                  *)
(***************************************************************************)
C2_ArchiveOnlyAfterWrite ==
  [][ /\ \A s \in Range(uploaded_paths) :
           fs[s].loc = "watched" /\ fs'[s].loc = "archive"
             => /\ pc = "archive"
                /\ Len(store) >= Len(new_rows)
                /\ SubSeq(store, Len(store) - Len(new_rows) + 1, Len(store)) = ToFrame(new_rows)
      /\ pc = "write" /\ pc' \in { "build", "returned" }
           => /\ store' = store
              /\ Range(uploaded_paths) \subseteq Watched'
      /\ failed_now \subseteq Watched /\ failed_now \subseteq Watched'
    ]_vars

\* A chunk's write failed, and a later chunk of the same pass is being archived.
C2_Witness ==
  /\ pc = "archive"
  /\ "chunk_failed" \in log
  /\ failed_now # { }
  /\ failed_now \subseteq Watched

(***************************************************************************)
(* C3.  Chunk failure recovery: when a pass without a failed query, write  *)
(* or move ends, every file of a chunk whose write failed before is in the *)
(* archive and the store holds exactly one row with its Signature.         *)
(***************************************************************************)
C3_ChunkFailureRecovery ==
  [][ retry # { } /\ retry' = { } /\ pc' = "returned"
        => \A f \in retry :
             /\ fs'[f].loc = "archive"
             /\ Cardinality(RowsWith(store', ReadingSig(fs[f].kind))) = 1
    ]_vars

(***************************************************************************)
(* C4.  Idempotent re-run: the filter of a pass forwards no scanned file   *)
(* whose Signature the store already holds, so that no row is appended for *)
(* it in this pass or the next, and hands the file to the archive.         *)
(***************************************************************************)
C4_IdempotentRerun ==
  [][ pc = "filter" /\ pc' \in { "build", "returned" }
        => \A s \in ScannedReadings :
             ReadingSig(fs[s].kind) \in StoreSigs(store)
               => /\ s \notin Range(files_to_process')
                  /\ fs'[s].loc = "archive" \/ faults' > faults
    ]_vars

(***************************************************************************)
(* C5.  Same-batch dedup: of two scanned files of one pass whose Readings  *)
(* have the same Signature, the one listed second is archived by the       *)
(* filter as a duplicate and is not forwarded.                             *)
(***************************************************************************)
C5_SameBatchDedup ==
  [][ pc = "filter" /\ pc' \in { "build", "returned" }
        => \A a, b \in ScannedReadings :
             a < b /\ ReadingSig(fs[a].kind) = ReadingSig(fs[b].kind)
               => /\ b \notin Range(files_to_process')
                  /\ fs'[b].loc = "archive" \/ faults' > faults
    ]_vars

(***************************************************************************)
(* C6.  Duplicate Filter guarantee: no file forwarded to the uploader has  *)
(* the Signature of a row the store held when the pass started, and no two *)
(* forwarded files have the same Signature.                                *)
(***************************************************************************)
C6_FilterGuarantee ==
  pc = "build" /\ i = 0
    => LET forwarded == { n \in 1..Len(files_to_process) :
                            Builds(m_kind(files_to_process[n])) }
           sig(n) == ReadingSig(m_kind(files_to_process[n]))
       IN /\ \A n \in forwarded : sig(n) \notin StoreSigs(store)
          /\ \A n, m \in forwarded : n # m => sig(n) # sig(m)

(***************************************************************************)
(* C7.  A pass whose query for the existing signatures failed appends no   *)
(* row and moves no file to the archive.                                   *)
(***************************************************************************)
C7_QueryFailureAborts ==
  [][ "db_warning" \in log => store' = store /\ Archived' = Archived ]_vars

(***************************************************************************)
(* C8.  When the extractor times out, fails, or prints nothing or nothing  *)
(* parsable, get_metadata returns nothing and run_pipeline returns to the  *)
(* loop with the store and every file as they were, without a query.       *)
(***************************************************************************)
C8_ExtractorFailure ==
  [][ pc = "map" /\ extract \in ExtractorOutcomes \ { "ok" }
        => /\ meta_dict = { }
           /\ store' = store
           /\ Archived' = Archived
           /\ existing' = existing
           /\ pc' # pc /\ faults' = faults => pc' = "returned"
    ]_vars

\* The extractor timed out over a tree that holds files.
C8_Witness ==
  /\ pc = "map"
  /\ extract = "timeout"
  /\ Watched # { }

(***************************************************************************)
(* C9.  Missing asset tag: no row of a file whose note normalizes to empty *)
(* is appended to the store, and when a pass without a failed move ends,   *)
(* every such file it scanned is in the archive.                           *)
(***************************************************************************)
C9_MissingAssetArchived ==
  [][ /\ \A n \in Appended : ~NoAsset(fs[store'[n].Filename].kind)
      /\ ( /\ pc \in { "map", "filter", "build", "archive" }
           /\ pc' = "returned"
           /\ "archive_error" \notin log
           /\ faults' = faults )
           => \A s \in meta_dict : NoAsset(fs[s].kind) => fs'[s].loc = "archive"
    ]_vars

(***************************************************************************)
(* C10.  Lock respect.  As stated: while a file that was recent and locked *)
(* when the gate began is still locked, the gate does not report stable.   *)
(***************************************************************************)
C10_LockedSinceGateBegan ==
  [][ (pc \in { "gate", "gate_sleep" } /\ gate_locked # { }) => (pc' # "get_metadata") ]_vars

(***************************************************************************)
(* C10, amended: a walk of the gate that finds a file modified within the  *)
(* last 60 seconds locked does not report stable; the gate sleeps, walks   *)
(* again or gives up after its timeout, and as long as it lasts no row is  *)
(* appended and no file is archived.                                       *)
(***************************************************************************)
C10_LockRespect ==
  [][ /\ pc = "gate" /\ RecentLocked /\ pc' # pc => pc' = "gate_sleep"
      /\ pc = "gate_sleep" /\ pc' # pc => pc' \in { "gate", "wait" }
      /\ pc \in { "gate", "gate_sleep" } => store' = store /\ Archived' = Archived
    ]_vars

\* A walk found a recent file locked and the gate sleeps, the file still locked.
C10_Witness ==
  /\ pc = "gate_sleep"
  /\ RecentLocked
  /\ gate_locked # { }

\* The files of the tree that are more than 60 seconds old and held open.
OldLocked == { s \in Slots : fs[s].loc = "watched" /\ ~fs[s].recent /\ fs[s].locked }

(***************************************************************************)
(* C11.  A file more than 60 seconds old never makes the gate report       *)
(* unstable, locked or not: a walk that finds no recent file locked        *)
(* reports stable and the pass begins; its scan returns the old locked     *)
(* files and its filter forwards them or hands them to the archive as      *)
(* duplicates (a move that raises is logged).                              *)
(***************************************************************************)
C11_OldFilesNotProbed ==
  [][ /\ pc = "gate" /\ ~RecentLocked /\ pc' # pc => pc' = "get_metadata"
      /\ pc = "get_metadata" /\ pc' = "map" /\ extract' = "ok"
           => OldLocked \subseteq meta_dict'
      /\ pc = "filter" /\ pc' = "build"
           => \A s \in OldLocked \cap meta_dict :
                \/ s \in Range(files_to_process')
                \/ fs'[s].loc = "archive"
                \/ "archive_error" \in log'
    ]_vars

\* A pass of the loop builds the rows of a chunk that holds an old locked file.
C11_Witness ==
  /\ observing
  /\ pc = "build"
  /\ \E s \in Range(files_to_process) : s \in OldLocked

\* The main thread is inside run_pipeline.
InPass == pc \in { "get_metadata", "map", "query", "filter", "build", "write", "archive" }

\* The positions run_pipeline can go to from a position.
PassSuccessors(at) ==
  CASE at = "get_metadata" -> { "map" }
    [] at = "map" -> { "query", "returned" }
    [] at = "query" -> { "filter" }
    [] at = "filter" -> { "build", "returned" }
    [] at = "build" -> { "build", "write", "returned" }
    [] at = "write" -> { "archive", "build", "returned" }
    [] at = "archive" -> { "archive", "build", "returned" }

(***************************************************************************)
(* C12.  One pass at a time: from inside a pass the main thread only goes  *)
(* on with that pass or returns from it, never to a gate check or to the   *)
(* start of another pass; a pass begins only from the startup or from a    *)
(* gate walk; and a trigger raised during a pass changes neither the       *)
(* position nor the locals of the pass.                                    *)
(***************************************************************************)
C12_OnePassAtATime ==
  [][ /\ InPass /\ pc' # pc => pc' \in PassSuccessors(pc)
      /\ pc' = "get_metadata" /\ pc # "get_metadata" => pc \in { "connect", "gate" }
      /\ InPass /\ (TRIGGER_EVENT' # TRIGGER_EVENT \/ fsEvents' # fsEvents)
           => pc' = pc /\ UNCHANGED << pass_vars, store >>
    ]_vars

\* Triggers are raised and pending while a pass of the loop writes a chunk.
C12_Witness ==
  /\ observing
  /\ pc = "write"
  /\ TRIGGER_EVENT
  /\ fsEvents > 0

MainThread == Startup \/ Loop \/ Pipeline

\* The whole program with a main thread that is never starved and an
\* observer thread that delivers every event it has queued.
SpecLoopFair == SpecLoop /\ WF_vars(MainThread) /\ WF_vars(HandleEvent)

InitFaulty == Boot(MaxFaults - 1)

NextFaulty ==
  \/ Startup \/ Loop \/ Pipeline
  \/ HandleEvent \/ ManualTrigger
  \/ DropCapture \/ Release \/ Restart

SpecLoopFaulty == InitFaulty /\ [][NextFaulty]_vars

(***************************************************************************)
(* C15.  The loop survives failed and skipped passes: the process ends     *)
(* only at startup; a failed extraction returns from the pass, a failed    *)
(* query and a failed write let the pass go on; after a pass and after a   *)
(* gate that gave up the loop waits again; and from waiting a trigger      *)
(* leads to the debounce, the clear and a new gate check.                  *)
(***************************************************************************)
C15_LoopSurvives ==
  [][ /\ pc' = "exited" => pc \in { "validate", "connect", "exited" }
      /\ pc = "map" /\ extract # "ok" /\ pc' # pc => pc' = "returned"
      /\ pc = "query" /\ pc' # pc => pc' = "filter"
      /\ pc = "write" /\ pc' # pc => pc' \in { "archive", "build", "returned" }
      /\ pc = "returned" /\ pc' # pc => pc' \in { "wait", "start_observer" }
      /\ pc = "gate_sleep" /\ pc' # pc => pc' \in { "gate", "wait" }
      /\ pc = "wait" /\ pc' # pc => TRIGGER_EVENT /\ pc' = "debounce"
      /\ pc = "debounce" /\ pc' # pc => pc' = "clear"
      /\ pc = "clear" /\ pc' # pc => pc' = "gate"
    ]_vars

\* After a pass with a failed chunk write a trigger has led to a new gate check.
C15_Witness ==
  /\ observing
  /\ pc = "gate"
  /\ retry # { }

(***************************************************************************)
(* C16.  A failed chunk write does not end the pass: when chunks remain    *)
(* the pass goes on with the next one, the to-process list unchanged; a    *)
(* later chunk whose write succeeds has its rows appended, and each of its *)
(* files is then handed to the archive.                                    *)
(***************************************************************************)
C16_PassContinuesAfterFailedChunk ==
  [][ /\ pc = "write" /\ pc' \notin { "write", "exited" } /\ store' = store
           => IF i + BATCH_SIZE < Len(files_to_process)
              THEN /\ pc' = "build"
                   /\ i' = i + BATCH_SIZE
                   /\ files_to_process' = files_to_process
              ELSE pc' = "returned"
      /\ pc = "write" /\ failed_now # { } /\ pc' = "archive"
           => store' = store \o ToFrame(new_rows)
      /\ pc = "archive" /\ failed_now # { } /\ pc' # "exited" /\ (pc' # pc \/ k' # k)
           => fs'[uploaded_paths[k + 1]].loc = "archive" \/ faults' > faults
    ]_vars

\* After a failed chunk, the rows of a later chunk of the pass are stored and
\* its files are being archived.
C16_Witness ==
  /\ pc = "archive"
  /\ i > 0
  /\ failed_now # { }
  /\ Len(store) > 0
  /\ store[Len(store)].Filename = uploaded_paths[Len(uploaded_paths)]

\* The files of the current chunk for which process_image returned None.
Rowless == { f \in Range(Chunk) : KindRow[m_kind(f)] = << >> }

(***************************************************************************)
(* C17.  A file of a chunk whose row could not be built is handed to the   *)
(* archive when the chunk is built, before its write is attempted, and an  *)
(* archived file stays archived whatever the write does.                   *)
(***************************************************************************)
C17_RowlessArchivedAtOnce ==
  [][ /\ pc = "build" /\ pc' # "exited" /\ (pc' # pc \/ i' # i)
           => \A f \in Rowless : fs'[f].loc = "archive" \/ faults' > faults
      /\ pc = "write"
           => \A f \in Rowless : fs[f].loc = "archive" \/ "archive_error" \in log
      /\ \A s \in Slots : fs[s].loc = "archive" => fs'[s].loc = "archive"
    ]_vars

\* The write of a chunk is about to be attempted, a file of the chunk without
\* a row already archived.
C17_Witness ==
  /\ pc = "write"
  /\ \E f \in Rowless : fs[f].loc = "archive"

\* The errors the startup checks log before the process exits.
StartupErrors ==
  { "input_folder_missing", "archive_folder_not_created", "exiftool_not_found",
    "db_pass_missing", "critical_db_error" }

(***************************************************************************)
(* C18.  Startup failures: validate_environment rejects every environment  *)
(* that lacks the watched root, the extractor or the store password; a     *)
(* rejected environment and a failed connection end the process from the   *)
(* startup checks, with the error logged, no watcher started, no row       *)
(* written and no file moved; the startup pass begins only from a          *)
(* successful connection, no startup error logged.                         *)
(***************************************************************************)
C18_StartupFailuresExit ==
  [][ /\ \A env \in StartupEnvironments :
           ~env.root \/ ~env.exiftool \/ ~env.db_pass => validate_environment(env) # "ok"
      /\ pc = "validate" /\ pc' # pc
           => \/ pc' = "connect" /\ log' = { }
              \/ pc' = "exited" /\ log' \subseteq StartupErrors /\ log' # { }
      /\ pc = "connect" /\ pc' # pc
           => \/ pc' = "get_metadata" /\ log = { }
              \/ pc' = "exited" /\ log' = { "critical_db_error" }
      /\ pc \in { "validate", "connect" }
           => /\ store' = store
              /\ Archived' = Archived
              /\ ~observing /\ ~observing'
              /\ pc' \in { "validate", "connect", "get_metadata", "exited" }
      /\ pc' = "get_metadata" /\ pc \notin { "get_metadata", "gate" } => pc = "connect"
    ]_vars

\* The process has exited because the extractor executable was not found,
\* image files waiting in the tree.
C18_Witness ==
  /\ pc = "exited"
  /\ log = { "exiftool_not_found" }
  /\ Watched # { }
  /\ store = << >>

(***************************************************************************)
(* C19.  One startup pass: a successful connection test is followed by a   *)
(* pass, before the watcher is started; when that pass has returned the    *)
(* threads are started and the loop waits; the watcher once started, every *)
(* pass begins from a gate walk of the loop.                               *)
(***************************************************************************)
C19_OneStartupPass ==
  [][ /\ pc = "connect" /\ pc' \notin { "connect", "exited" } => pc' = "get_metadata"
      /\ pc' = "get_metadata" /\ pc # "get_metadata"
           => \/ pc = "connect" /\ ~observing
              \/ pc = "gate" /\ observing
      /\ pc = "returned" /\ ~observing /\ pc' # pc => pc' = "start_observer"
      /\ pc = "start_observer" /\ pc' # pc => pc' = "wait" /\ observing'
      /\ observing => observing' /\ pc' \notin { "validate", "connect", "start_observer" }
    ]_vars

\* The startup pass has uploaded the backlog and returned; the watcher is not
\* started yet.
C19_Witness ==
  /\ pc = "start_observer"
  /\ ~observing
  /\ Len(store) > 0
  /\ Archived # { }

(***************************************************************************)
(* process_image on its own, lines 218-286: one call for a metadata entry  *)
(* with an asset tag, a serial number and a readable thermal payload,      *)
(* whose capture time is one of a family of texts.                         *)
(***************************************************************************)
\* The most characters that follow the seconds.
MaxTail == 3

\* The fraction and offset the camera writes after the seconds.
Fraction == << ".", "1", "5", "8", "+", "0", "2", ":", "0", "0" >>

\* A number as a text, with a leading zero or without.
Written(n, padded) == IF padded \/ n > 9 THEN Pad2(n) ELSE << DigitChar(n) >>

Delimiters == { ":", "-" }
YearTexts == { Pad4(n) : n \in { 0, 2024, 2026 } }
MonthTexts == { Written(n, padded) : n \in { 0, 2, 12, 13 }, padded \in BOOLEAN }
DayTexts == { Written(n, padded) : n \in { 0, 5, 29, 30, 32 }, padded \in BOOLEAN } \cup { << " ", "5" >> }
Blanks == { << " " >>, << " ", " " >> }
HourTexts == { Written(n, padded) : n \in { 9, 23, 24 }, padded \in BOOLEAN }
MinuteTexts == { Written(n, padded) : n \in { 4, 44 }, padded \in { FALSE } }
SecondTexts == { Written(n, padded) : n \in { 7, 47, 60 }, padded \in { FALSE } }
Tails == { Take(Fraction, n) : n \in 0..MaxTail }

\* The entry process_image is called with.
EntryOf(text) == [ MetaColon EXCEPT !.DateTimeOriginal = text ]

InitRowBuilder ==
  /\ Program(0, "process_image")
  /\ \E year \in YearTexts, a \in Delimiters, month \in MonthTexts,
        b \in Delimiters, day \in DayTexts, blank \in Blanks,
        hour \in HourTexts, minute \in MinuteTexts, second \in SecondTexts,
        tail \in Tails :
       raw_ts = year \o << a >> \o month \o << b >> \o day \o blank
                \o hour \o << ":" >> \o minute \o << ":" >> \o second \o tail
  /\ row = None
  /\ NoEventSeen
  /\ NoDiskSeen
  /\ NoWeatherCall

\* The call returns the row, or None.
CallProcessImage ==
  /\ pc = "process_image"
  /\ row' = process_image(1, EntryOf(raw_ts), TRUE)
  /\ pc' = "process_image_returned"
  /\ UNCHANGED << fs, store, TRIGGER_EVENT, fsEvents, observing, pass_vars,
                  gate_locked, faults, raw_ts, observed, event, disk, clock,
                  response >>

NextRowBuilder == CallProcessImage

SpecRowBuilder == InitRowBuilder /\ [][NextRowBuilder]_vars

\* The text is written YYYY<sep>MM<sep>DD HH:MM:SS: nineteen characters, a
\* digit wherever the format has a letter.
WrittenAs(t, sep) ==
  /\ Len(t) = 19
  /\ \A n \in 1..19 :
       IF n \in { 5, 8 } THEN t[n] = sep
       ELSE IF n = 11 THEN t[n] = " "
       ELSE IF n \in { 14, 17 } THEN t[n] = ":"
       ELSE IsDigit(t[n])

\* A text written that way names a second of the calendar.
NamesSecond(t) ==
  LET year == DecVal(SubSeq(t, 1, 4))
      month == DecVal(SubSeq(t, 6, 7))
      day == DecVal(SubSeq(t, 9, 10))
  IN /\ year >= 1 /\ month >= 1 /\ month <= 12
     /\ day >= 1 /\ day <= DaysIn(year, month)
     /\ DecVal(SubSeq(t, 12, 13)) <= 23
     /\ DecVal(SubSeq(t, 15, 16)) <= 59
     /\ DecVal(SubSeq(t, 18, 19)) <= 59

\* The same second written YYYY-MM-DD HH:MM:SS.
Hyphenated(t) == [ t EXCEPT ![5] = "-", ![8] = "-" ]

(***************************************************************************)
(* C20.  A capture time whose first nineteen characters are written        *)
(* YYYY:MM:DD HH:MM:SS or YYYY-MM-DD HH:MM:SS and name a second gives a    *)
(* row whose Timestamp is that second written YYYY-MM-DD HH:MM:SS,         *)
(* whatever follows the seconds; a capture time whose first nineteen       *)
(* characters are written in neither way gives no row.                     *)
(***************************************************************************)
C20_TimestampFormats ==
  pc = "process_image_returned" =>
    LET clean_ts == Take(raw_ts, 19)
    IN /\ \A sep \in Delimiters :
            (WrittenAs(clean_ts, sep) /\ NamesSecond(clean_ts))
              => (row # None /\ row[1].Timestamp = Hyphenated(clean_ts))
       /\ (\A sep \in Delimiters : ~WrittenAs(clean_ts, sep)) => (row = None)

(***************************************************************************)
(* Paths, and FileTrigger on its own (lines 499-515): the observer thread  *)
(* dispatches one event of the watched tree to the handler.                *)
(***************************************************************************)
\* str.lower()
Lower(c) == IF IsUpperAlpha(c) THEN Ascii[Ord(c) - Ord("A") + Ord("a")] ELSE c
LowerStr(s) == [ n \in 1..Len(s) |-> Lower(s[n]) ]

\* str.startswith(prefix), str.endswith(suffix)
StartsWith(s, prefix) == Len(prefix) <= Len(s) /\ SubSeq(s, 1, Len(prefix)) = prefix
EndsWith(s, suffix) ==
  Len(suffix) <= Len(s) /\ SubSeq(s, Len(s) - Len(suffix) + 1, Len(s)) = suffix

\* os.path.join(a, b) for a relative b.
join(a, b) == a \o << "/" >> \o b

\* The watched root and the archive below it, as lines 32-33 name them
\* (relative to the working directory), and the working directory.
INPUT_FOLDER == << "r" >>
ARCHIVE_FOLDER == join(INPUT_FOLDER, << "z" >>)
Cwd == << "/", "c" >>

\* os.path.abspath(path).  No path of the model holds ".", ".." or a doubled
\* separator, so normpath has nothing to collapse.
abspath(path) == IF StartsWith(path, << "/" >>) THEN path ELSE join(Cwd, path)

\* The positions of a character in a text.
Places(s, c) == { n \in 1..Len(s) : s[n] = c }
Last(S) == CHOOSE n \in S : \A m \in S : m <= n

\* os.path.basename(path)
basename(path) ==
  IF Places(path, "/") = { } THEN path
  ELSE SubSeq(path, Last(Places(path, "/")) + 1, Len(path))

\* os.path.splitext(filename) of a name that holds no separator: the
\* extension starts at the last dot, unless only dots come before it.
splitext(filename) ==
  LET dots == { n \in Places(filename, ".") : \E m \in 1..(n - 1) : filename[m] # "." }
  IN IF dots = { } THEN << filename, << >> >>
     ELSE << SubSeq(filename, 1, Last(dots) - 1), SubSeq(filename, Last(dots), Len(filename)) >>

\* str(n) of a number below 100.
Str(n) == IF n > 9 THEN Pad2(n) ELSE << DigitChar(n) >>

\* dst of move_to_archive, lines 349-355: exists says that the archive holds
\* the file's name already, now is int(time.time()).
archive_dst(filepath, exists, now) ==
  LET filename == basename(filepath)
      parts == splitext(filename)
  IN IF exists
     THEN join(ARCHIVE_FOLDER, parts[1] \o << "_" >> \o Str(now) \o parts[2])
     ELSE join(ARCHIVE_FOLDER, filename)

\* A handler that does not look at where the path lies.
trigger_anywhere(path) == EndsWith(LowerStr(path), << ".", "j", "p", "g" >>)

\* FileTrigger._trigger, lines 500-507: TRIGGER_EVENT.set() is reached.
trigger(path) ==
  /\ EndsWith(LowerStr(path), << ".", "j", "p", "g" >>)
  /\ ~StartsWith(abspath(path), abspath(ARCHIVE_FOLDER))

\* on_created, on_moved (lines 509-515) and the handlers FileTrigger leaves
\* as FileSystemEventHandler has them, which do nothing.
on_created(e) == ~e.is_directory /\ trigger(e.src_path)
on_moved(e) == ~e.is_directory /\ trigger(e.dest_path)
dispatch(e) ==
  CASE e.event_type = "created" -> on_created(e)
    [] e.event_type = "moved" -> on_moved(e)
    [] OTHER -> FALSE

\* The folders and names events are reported for: the root, the archive, a
\* subfolder of each, a folder whose name starts like the archive's, each
\* as the observer was given it and in full.
Folders ==
  LET below == { INPUT_FOLDER, ARCHIVE_FOLDER, join(INPUT_FOLDER, << "s" >>),
                 join(ARCHIVE_FOLDER, << "s" >>), join(INPUT_FOLDER, << "z", "z" >>) }
  IN below \cup { abspath(d) : d \in below }
Names ==
  { << "a", ".", "j", "p", "g" >>, << "a", ".", "J", "P", "G" >>,
    << "a", "_", "7", ".", "j", "p", "g" >>, << "a", ".", "p", "n", "g" >>,
    << "a", ".", "j", "p", "g", ".", "x" >>, << "j", "p", "g" >> }
Paths == { join(d, n) : d \in Folders, n \in Names }

\* The last second the clock reaches.
MaxClock == 8

\* The seconds move_to_archive reads the clock in.
Clock == 7..MaxClock

\* What shutil.move of line 356 makes the observer report for the archive:
\* a move, or (where the platform reports a deletion and a creation) a
\* creation, of the destination.
MoveEvents ==
  { [ event_type |-> ty, is_directory |-> FALSE, src_path |-> IF ty = "moved" THEN src ELSE dst,
      dest_path |-> IF ty = "moved" THEN dst ELSE << >> ] :
      ty \in { "moved", "created" },
      << src, dst >> \in { << f, archive_dst(f, exists, now) >> :
                            f \in Paths, exists \in BOOLEAN, now \in Clock } }

Events ==
  { [ event_type |-> ty, is_directory |-> dir, src_path |-> src,
      dest_path |-> IF ty = "moved" THEN dst ELSE << >> ] :
      ty \in { "created", "moved", "deleted", "modified" }, dir \in BOOLEAN,
      src \in Paths, dst \in Paths }

\* The main thread waits at line 571 with the flag cleared; one event is
\* to be dispatched.
InitObserver ==
  /\ fs = [ s \in Slots |-> NoFile ]
  /\ store = << >>
  /\ pc = "wait"
  /\ TRIGGER_EVENT = FALSE
  /\ fsEvents = 0
  /\ observing = TRUE
  /\ extract = "none"
  /\ meta_dict = { }
  /\ existing = { }
  /\ files_to_process = << >>
  /\ i = 0
  /\ new_rows = << >>
  /\ uploaded_paths = << >>
  /\ k = 0
  /\ log = { }
  /\ failed_now = { }
  /\ retry = { }
  /\ gate_locked = { }
  /\ faults = 0
  /\ NoRowBuilderCall
  /\ NoDiskSeen
  /\ NoWeatherCall
  /\ observed \in { << e >> : e \in Events \cup MoveEvents }
  /\ event = None

\* The observer thread calls the handler with the next event.
Dispatch ==
  /\ observed # << >>
  /\ event' = << Head(observed) >>
  /\ observed' = Tail(observed)
  /\ TRIGGER_EVENT' = (TRIGGER_EVENT \/ dispatch(Head(observed)))
  /\ UNCHANGED << fs, store, pc, fsEvents, observing, pass_vars, gate_locked,
                  faults, raw_ts, row, disk, clock, response >>

NextObserver == Dispatch

SpecObserver == InitObserver /\ [][NextObserver]_vars

\* The path an event is about: where the file is after it.
PathOf(e) == IF e.event_type = "moved" THEN e.dest_path ELSE e.src_path

\* The path lies in the archive directory or below it.
UnderArchive(path) ==
  \/ abspath(path) = abspath(ARCHIVE_FOLDER)
  \/ StartsWith(abspath(path), abspath(ARCHIVE_FOLDER) \o << "/" >>)

\* The path names a .jpg file, in either case of the letters.
IsJpg(path) ==
  Len(path) >= 4 /\ LowerStr(SubSeq(path, Len(path) - 3, Len(path))) = << ".", "j", "p", "g" >>

(***************************************************************************)
(* C21.  An event whose path lies under the archive directory, or is no    *)
(* .jpg path, does not set the trigger flag; so the events that the        *)
(* pipeline's own moves into the archive raise leave it cleared.           *)
(***************************************************************************)
C21_ArchiveEventsIgnored ==
  event # None
    => /\ UnderArchive(PathOf(event[1])) \/ ~IsJpg(PathOf(event[1])) => ~TRIGGER_EVENT
       /\ event[1] \in MoveEvents => ~TRIGGER_EVENT

\* The handler was called with the move of a .jpg file from the watched
\* folder to a timestamp-suffixed name in the archive.
C21_Witness ==
  /\ event # None
  /\ event[1] \in MoveEvents
  /\ event[1].event_type = "moved"
  /\ IsJpg(event[1].dest_path)
  /\ ~UnderArchive(event[1].src_path)
  /\ EndsWith(event[1].dest_path, << "_", "7", ".", "j", "p", "g" >>)
  /\ ~TRIGGER_EVENT

(***************************************************************************)
(* move_to_archive on its own (lines 348-360), over a disk that holds      *)
(* files of the same name in several folders of the watched tree.          *)
(***************************************************************************)
\* The .jpg files iter_all_jpgs yields (lines 305-314): absolute paths in
\* the root and in two subfolders.  Each file is known by where it was.
SourceFolders ==
  { abspath(INPUT_FOLDER), abspath(join(INPUT_FOLDER, << "s" >>)),
    abspath(join(INPUT_FOLDER, << "t" >>)) }
SourceNames == { << "a", ".", "j", "p", "g" >>, << "b", ".", "j", "p", "g" >> }
Sources == { join(d, n) : d \in SourceFolders, n \in SourceNames }

\* os.path.exists(path)
exists(d, path) == abspath(path) \in DOMAIN d

\* shutil.move(src, dst) for a file src that returns: dst holds the file and
\* src is gone.  A file that was at dst is replaced, by os.rename where
\* rename replaces, and by the copy shutil.move falls back on where it
\* raises.
shutil_move(d, src, dst) ==
  [ q \in (DOMAIN d \ { abspath(src) }) \cup { abspath(dst) } |->
      IF q = abspath(dst) THEN d[abspath(src)] ELSE d[q] ]

InitArchive ==
  /\ Program(0, "move_to_archive")
  /\ NoRowBuilderCall
  /\ NoEventSeen
  /\ NoWeatherCall
  /\ disk \in { [ q \in S |-> q ] : S \in SUBSET Sources }
  /\ clock \in Clock

\* One call move_to_archive(filepath): moved is FALSE when shutil.move
\* raises, which the function logs.
MoveToArchive ==
  \E filepath \in { q \in DOMAIN disk : ~UnderArchive(q) }, moved \in BOOLEAN :
    /\ disk' = IF moved
               THEN shutil_move(disk, filepath,
                                archive_dst(filepath,
                                            exists(disk, join(ARCHIVE_FOLDER, basename(filepath))),
                                            clock))
               ELSE disk
    /\ UNCHANGED << program_vars, raw_ts, row, observed, event, clock, response >>

\* A second passes.
Tick ==
  /\ clock < MaxClock
  /\ clock' = clock + 1
  /\ UNCHANGED << program_vars, raw_ts, row, observed, event, disk, response >>

NextArchive == MoveToArchive \/ Tick

SpecArchive == InitArchive /\ [][NextArchive]_vars

(***************************************************************************)
(* C22.  No call of move_to_archive replaces or removes a file the archive *)
(* holds: every path of the archive keeps the file it held.                *)
(***************************************************************************)
C22_ArchiveNeverOverwrites ==
  [][ \A q \in DOMAIN disk :
        UnderArchive(q) => q \in DOMAIN disk' /\ disk'[q] = disk[q]
    ]_vars

(***************************************************************************)
(* The pipeline whose only mishap is the stop of the process: the store    *)
(* and the file system do not fail (the fault budget is spent from the     *)
(* start), and the process is stopped at any point of a pass and started   *)
(* again, while the store holds fewer than MaxFiles rows.                  *)
(***************************************************************************)
\* The process is stopped (killed, or interrupted: lines 578-580): the locals
\* of run_pipeline are gone, the files and the store stay as they are.
Crash ==
  /\ pc # "exited"
  /\ Len(store) < MaxFiles
  /\ pc' = "exited"
  /\ TRIGGER_EVENT' = FALSE
  /\ fsEvents' = 0
  /\ observing' = FALSE
  /\ gate_locked' = { }
  /\ extract' = "none"
  /\ meta_dict' = { }
  /\ existing' = { }
  /\ files_to_process' = << >>
  /\ i' = 0
  /\ new_rows' = << >>
  /\ uploaded_paths' = << >>
  /\ k' = 0
  /\ log' = { }
  /\ failed_now' = { }
  /\ retry' = retry \cup failed_now
  /\ UNCHANGED << alone_vars, fs, store, faults >>

NextCrash ==
  \/ Startup \/ LoopPass \/ Pipeline
  \/ DropImage \/ Crash \/ Restart

InitCrash == Boot(MaxFaults)

SpecCrash == InitCrash /\ [][NextCrash]_vars

\* The rows of a table uploaded for the file at a path.
RowsOfFile(rows, path) == { n \in 1..Len(rows) : rows[n].Filename = path }

(***************************************************************************)
(* C23.  Crash recovery: the process being stopped at any point of a pass  *)
(* and started again, when a pass that scanned the tree ends, every file   *)
(* that has been uploaded is in the archive, and the store holds one row   *)
(* for it (two rows of one file are two rows with the same Signature).     *)
(***************************************************************************)
C23_CrashRecovery ==
  [][ pc' = "returned" /\ pc \in { "filter", "build", "write", "archive" }
        => \A s \in Slots :
             RowsOfFile(store', s) # { }
               => /\ fs'[s].loc = "archive"
                  /\ Cardinality(RowsOfFile(store', s)) = 1
    ]_vars

(***************************************************************************)
(* C24.  The pipeline only appends to the Data Store: every step of every  *)
(* pass, and every stop and start of the process, leaves the rows the      *)
(* store holds as they are and in their place; no row is updated or        *)
(* deleted.                                                                *)
(***************************************************************************)
C24_StoreAppendOnly ==
  [][ /\ Len(store') >= Len(store)
      /\ SubSeq(store', 1, Len(store)) = store
    ]_vars

\* The write of a chunk has appended its rows to a store that held rows.
C24_Witness ==
  /\ pc = "archive"
  /\ new_rows # << >>
  /\ Len(store) > Len(new_rows)
  /\ SubSeq(store, Len(store) - Len(new_rows) + 1, Len(store)) = ToFrame(new_rows)

\* The file at a path has an asset and a timestamp the filter can key it by.
Keyed(path) == Truthy(KindSig[m_kind(path)][1]) /\ Truthy(KindSig[m_kind(path)][2])

\* The files of the tree the filter of this pass meets with their signature
\* in the working set: the set as the query seeded it, or a file listed
\* before with the same signature.
Duplicates ==
  { s \in Watched :
      /\ Keyed(s)
      /\ \/ KindSig[m_kind(s)] \in existing
         \/ \E t \in Watched : t < s /\ Keyed(t) /\ KindSig[m_kind(t)] = KindSig[m_kind(s)] }

(***************************************************************************)
(* C25.  A file the filter classifies as duplicate is handed to the        *)
(* archive by the filter and is not in the to-process list; the list stays *)
(* as the filter left it for the rest of the pass, and only files of the   *)
(* list are passed to the Row Builder and have rows in a chunk write.      *)
(***************************************************************************)
C25_DuplicateArchivedNotUploaded ==
  [][ /\ pc = "filter" /\ pc' \in { "build", "returned" }
           => \A s \in Duplicates :
                /\ s \notin Range(files_to_process')
                /\ fs'[s].loc = "archive" \/ faults' > faults
      /\ pc \in { "build", "write", "archive" } /\ pc' \in { "build", "write", "archive" }
           => files_to_process' = files_to_process
      /\ pc' \in { "write", "archive" }
           => /\ Range(uploaded_paths') \subseteq Range(files_to_process')
              /\ \A n \in 1..Len(new_rows') : new_rows'[n].Filename \in Range(files_to_process')
      /\ \A n \in Appended : store'[n].Filename \in Range(files_to_process)
    ]_vars

\* A duplicate of a stored row was archived by the filter, and the row of
\* another file of the pass is about to be written.
C25_Witness ==
  /\ pc = "write"
  /\ \E s \in Archived \cap meta_dict :
       /\ s \notin Range(files_to_process)
       /\ Keyed(s)
       /\ KindSig[m_kind(s)] \in StoreSigs(store)

\* The files left in the tree by a chunk whose write failed, not uploaded
\* since.
LeftInPlace == { f \in retry \cap Watched : RowsOfFile(store, f) = { } }

\* A file listed before this one has the same filter key.
ListedBefore(f) ==
  \E t \in Watched : t < f /\ Keyed(t) /\ KindSig[m_kind(t)] = KindSig[m_kind(f)]

(***************************************************************************)
(* C26 as stated.  The working signature set is seeded on every pass from  *)
(* the rows of the store alone, and a file left in place by a failed chunk *)
(* write is in the to-process list of the next pass.                       *)
(***************************************************************************)
C26_RetriedAsToProcess ==
  [][ /\ pc = "query" /\ pc' = "filter" => existing' \subseteq StoreSigs(store)
      /\ pc = "filter" /\ pc' \in { "build", "returned" }
           => \A f \in LeftInPlace : f \in Range(files_to_process')
    ]_vars

(***************************************************************************)
(* C26.  The working signature set is seeded on every pass from the rows   *)
(* of the store alone, and a file left in place by a failed chunk write is *)
(* in the to-process list of the next pass unless the store holds its      *)
(* signature by then or a file listed before it has the same signature.    *)
(***************************************************************************)
C26_WorkingSetRebuilt ==
  [][ /\ pc = "query" /\ pc' = "filter" => existing' \subseteq StoreSigs(store)
      /\ pc = "filter" /\ pc' \in { "build", "returned" }
           => \A f \in LeftInPlace :
                KindSig[m_kind(f)] \notin StoreSigs(store) /\ ~ListedBefore(f)
                  => f \in Range(files_to_process')
    ]_vars

\* A file of a failed chunk is in the to-process list of a later pass, whose
\* working set was seeded from a store that holds rows.
C26_Witness ==
  /\ pc = "build"
  /\ failed_now = { }
  /\ store # << >>
  /\ \E f \in LeftInPlace : Keyed(f) /\ f \in Range(files_to_process)

(***************************************************************************)
(* The pipeline over files the Row Builder cannot fully read, with a store *)
(* and a file system that do not fail (the fault budget is spent from the  *)
(* start).                                                                 *)
(***************************************************************************)
\* The kinds of file dropped where the Row Builder's failures are looked at.
OddKinds == { "colon", "zerodate", "corrupt", "other", "badserial" }

\* A complete image file appears.
DropOddFile ==
  \E s \in Slots, kind \in OddKinds :
    /\ fs[s].loc = "none"
    /\ fs' = Put(s, kind, FALSE)
    /\ UNCHANGED << alone_vars, store, pc, TRIGGER_EVENT, fsEvents, observing, pass_vars,
                    gate_locked, faults >>

NextOdd ==
  \/ Startup \/ LoopPass \/ Pipeline
  \/ DropOddFile \/ Restart

InitOdd == Boot(MaxFaults)

SpecOdd == InitOdd /\ [][NextOdd]_vars

\* For each kind of file: it has an asset and a serial number process_image
\* accepts, and its timestamp is rejected by both strptime calls (lines
\* 236-244) or its thermal payload by flyr.unpack (line 254).
KindDamaged ==
  [ kd \in Kinds |->
      /\ Truthy(clean_asset_code(Get(Meta(kd), "ImageDescription", None)))
      /\ ToInt(Get(Meta(kd), "CameraSerialNumber", << "0" >>)) # ValueError
      /\ \/ ParseTimestamp(Get(Meta(kd), "DateTimeOriginal", << >>)) = ValueError
         \/ ~Decodable(kd) ]

\* The scanned files of the current chunk with such a failure.
Damaged == { f \in Range(Chunk) \cap meta_dict : KindDamaged[fs[f].kind] }

\* The files of the current chunk that yield a row.
Sound == { g \in Range(Chunk) : HasRow(g) }

(***************************************************************************)
(* C27.  A decode failure or an unparsable timestamp of one file of a      *)
(* chunk does not end the pass: the chunk loop archives that file without  *)
(* a row, builds the rows of the other files of the chunk, writes them to  *)
(* the store and archives their files; no row of the failed file is ever   *)
(* written.                                                                *)
(***************************************************************************)
C27_DamagedFileDiscarded ==
  [][ /\ pc = "build" /\ (pc' # pc \/ i' # i)
           => /\ \A f \in Damaged :
                   /\ fs'[f].loc = "archive"
                   /\ f \notin Range(uploaded_paths')
              /\ Sound # { }
                   => /\ pc' = "write"
                      /\ Sound = Range(uploaded_paths')
                      /\ new_rows' = RowsOf(uploaded_paths')
      /\ pc = "write" /\ pc' # pc
           => /\ pc' = "archive"
              /\ store' = store \o ToFrame(new_rows)
      /\ pc = "archive" /\ (pc' # pc \/ k' # k)
           => fs'[uploaded_paths[k + 1]].loc = "archive"
      /\ \A n \in Appended : ~KindDamaged[fs[store'[n].Filename].kind]
    ]_vars

\* A chunk held a file with an unparsable timestamp and a file with a row:
\* the first is archived, the row of the second is stored and its file is
\* being archived; a file the decoder rejected is archived as well.
C27_Witness ==
  /\ pc = "archive"
  /\ \E f \in Damaged : fs[f].kind = "zerodate" /\ fs[f].loc = "archive"
  /\ \E c \in Archived : fs[c].kind = "corrupt" /\ RowsOfFile(store, c) = { }
  /\ Len(store) >= Len(new_rows)
  /\ SubSeq(store, Len(store) - Len(new_rows) + 1, Len(store)) = ToFrame(new_rows)

\* For each kind of file: process_image finds an asset, a timestamp it can
\* parse and a payload it can decode, and the record has no serial number or
\* one that int() rejects.
KindSerialLess ==
  [ kd \in Kinds |->
      /\ Truthy(clean_asset_code(Get(Meta(kd), "ImageDescription", None)))
      /\ ParseTimestamp(Get(Meta(kd), "DateTimeOriginal", << >>)) # ValueError
      /\ Decodable(kd)
      /\ \/ "CameraSerialNumber" \notin DOMAIN Meta(kd)
         \/ ToInt(Meta(kd).CameraSerialNumber) = ValueError ]

\* The scanned files of the current chunk of such a kind.
SerialLess == { f \in Range(Chunk) \cap meta_dict : KindSerialLess[fs[f].kind] }

(***************************************************************************)
(* C28.  A file with an asset and a parsable timestamp whose serial number *)
(* is absent or unparsable gets a row when its chunk is built, with        *)
(* Camera_Serial 0, the serial of the signature the filter computed for    *)
(* it; the row is written with the chunk.                                  *)
(***************************************************************************)
C28_SerialDefaultsToZero ==
  [][ /\ pc = "build" /\ (pc' # pc \/ i' # i)
           => \A f \in SerialLess :
                /\ KindSig[fs[f].kind][3] = 0
                /\ \E n \in 1..Len(new_rows') :
                     /\ new_rows'[n].Filename = f
                     /\ new_rows'[n].Camera_Serial = 0
      /\ pc = "write" /\ pc' # pc => store' = store \o ToFrame(new_rows)
    ]_vars

(***************************************************************************)
(* The weather lookup, get_alexandria_weather lines 183-215, and the row   *)
(* of one file built with it, written and archived: a chunk of one capture *)
(* with a store and a file system that do not fail.                        *)
(***************************************************************************)
\* The hours of the day the capture is taken at.
CaptureHours == { 0, 9, 23 }

\* The DateTimeOriginal of the capture taken at an hour.
CaptureAt(hour) ==
  Take(MetaColon.DateTimeOriginal, 11) \o Pad2(hour)
    \o SubSeq(MetaColon.DateTimeOriginal, 14, Len(MetaColon.DateTimeOriginal))

\* An hourly series of n values, the value of hour h being 10 + h, or null
\* throughout.
Series(n, null) == [ h \in 1..n |-> IF null THEN None ELSE << 10 + h - 1 >> ]

\* What requests.get and response.json() can do (lines 201-204): the call
\* raises (no network, timeout), or answers with a status and a body that
\* is no JSON or a JSON object with or without "hourly", with or without
\* "temperature_2m" in it, the series empty, ten hours long or a day long.
Responses ==
  { r \in [ raised : BOOLEAN, status_code : { 200, 500 }, json : BOOLEAN,
            keys : SUBSET { "hourly" }, hourly_keys : SUBSET { "temperature_2m" },
            temps : { Series(0, FALSE), Series(10, FALSE), Series(24, FALSE),
                      Series(24, TRUE) } ] :
      r.raised => /\ r.status_code = 500
                  /\ ~r.json
                  /\ r.keys = { }
                  /\ r.hourly_keys = { }
                  /\ r.temps = << >> }

\* get_alexandria_weather: the temperature as a one-element sequence, or None.
\* An exception anywhere (the request, json(), float(None)) is caught at line
\* 213 and gives None.
get_alexandria_weather(dt_obj, resp) ==
  LET hour_idx == dt_obj[4]
  IN IF resp.raised THEN None
     ELSE IF resp.status_code # 200 THEN None
     ELSE IF ~resp.json THEN None
     ELSE IF "hourly" \notin resp.keys \/ "temperature_2m" \notin resp.hourly_keys THEN None
     ELSE IF 0 <= hour_idx /\ hour_idx < Len(resp.temps)
          THEN resp.temps[hour_idx + 1]
          ELSE None

\* The row of process_image with its weather_temp, lines 246-274.
WithWeather(built, dt_obj, resp) ==
  [ Timestamp |-> built.Timestamp,
    Filename |-> built.Filename,
    Camera_Serial |-> built.Camera_Serial,
    Asset_Name |-> built.Asset_Name,
    weather_temp |-> get_alexandria_weather(dt_obj, resp) ]

\* A Row Builder for which a lookup without a value is an error of the row.
process_image_needs_weather(filepath, metadata_entry, decodable, resp) ==
  LET dt_obj == ParseTimestamp(Get(metadata_entry, "DateTimeOriginal", << >>))
  IN IF process_image(filepath, metadata_entry, decodable) = << >> THEN << >>
     ELSE IF get_alexandria_weather(dt_obj, resp) = None THEN << >>
     ELSE << WithWeather(process_image(filepath, metadata_entry, decodable)[1], dt_obj, resp) >>

\* process_image with the weather lookup of line 250.
process_image_weather(filepath, metadata_entry, decodable, resp) ==
  LET dt_obj == ParseTimestamp(Get(metadata_entry, "DateTimeOriginal", << >>))
  IN IF process_image(filepath, metadata_entry, decodable) = << >> THEN << >>
     ELSE << WithWeather(process_image(filepath, metadata_entry, decodable)[1], dt_obj, resp) >>

\* A pass is about to build its only chunk, of one capture; the weather
\* service will do one of the things it can do.
InitWeather ==
  /\ fs = [ s \in Slots |->
              IF s = 1
              THEN [ loc |-> "watched", kind |-> "colon", recent |-> FALSE, locked |-> FALSE ]
              ELSE NoFile ]
  /\ store = << >>
  /\ pc = "build"
  /\ TRIGGER_EVENT = FALSE
  /\ fsEvents = 0
  /\ observing = FALSE
  /\ extract = "none"
  /\ meta_dict = { 1 }
  /\ existing = { }
  /\ files_to_process = << 1 >>
  /\ i = 0
  /\ new_rows = << >>
  /\ uploaded_paths = << >>
  /\ k = 0
  /\ log = { }
  /\ failed_now = { }
  /\ retry = { }
  /\ gate_locked = { }
  /\ faults = MaxFaults
  /\ raw_ts \in { CaptureAt(hour) : hour \in CaptureHours }
  /\ row = None
  /\ NoEventSeen
  /\ NoDiskSeen
  /\ response \in { << r >> : r \in Responses }

\* Lines 458-471 for the chunk of one file.
BuildWithWeather ==
  /\ pc = "build"
  /\ row' = process_image_weather(files_to_process[1], EntryOf(raw_ts), TRUE, response[1])
  /\ IF row' # << >>
     THEN /\ pc' = "write"
          /\ new_rows' = row'
          /\ uploaded_paths' = << files_to_process[1] >>
          /\ fs' = fs
          /\ UNCHANGED << extract, meta_dict, existing, files_to_process,
                          i, k, log, failed_now, retry >>
     ELSE /\ fs' = move_to_archive(fs, files_to_process[1], TRUE)
          /\ ChunkDone(log, failed_now)
  /\ UNCHANGED << store, TRIGGER_EVENT, fsEvents, observing, gate_locked, faults,
                  raw_ts, observed, event, disk, clock, response >>

NextWeather == BuildWithWeather \/ WriteChunk \/ ArchiveUploaded

SpecWeather == InitWeather /\ [][NextWeather]_vars

\* The lookup fails in one of four ways: the request raises, the status is
\* not 200, the series is missing, or the capture hour is outside the series.
LookupFailed ==
  \/ response[1].raised
  \/ response[1].status_code # 200
  \/ response[1].json /\ ( "hourly" \notin response[1].keys
                           \/ "temperature_2m" \notin response[1].hourly_keys )
  \/ response[1].json /\ ParseTimestamp(raw_ts)[4] >= Len(response[1].temps)

(***************************************************************************)
(* C29.  When the weather lookup fails (the request raises, the status is  *)
(* not 200, the series is missing, the capture hour is outside the         *)
(* series), the row is built all the same, with no weather value; it is    *)
(* written to the store with weather_temp absent and the file is archived. *)
(***************************************************************************)
C29_WeatherFailureTolerated ==
  [][ /\ pc = "build" /\ pc' # pc /\ LookupFailed
           => /\ pc' = "write"
              /\ Len(new_rows') = 1
              /\ new_rows'[1].weather_temp = None
              /\ new_rows'[1].Timestamp = Strftime(ParseTimestamp(raw_ts))
              /\ uploaded_paths' = files_to_process
      /\ pc = "write" /\ pc' # pc /\ LookupFailed
           => /\ pc' = "archive"
              /\ store' = store \o ToFrame(new_rows)
              /\ store'[Len(store')].weather_temp = None
      /\ pc = "archive" /\ pc' # pc
           => fs'[files_to_process[1]].loc = "archive"
    ]_vars

\* The service answered 200 with a series that ends before the capture hour:
\* the row is stored without a weather value and the file is archived.
C29_Witness ==
  /\ pc = "returned"
  /\ ~response[1].raised
  /\ response[1].status_code = 200
  /\ response[1].json
  /\ response[1].temps # << >>
  /\ ParseTimestamp(raw_ts)[4] >= Len(response[1].temps)
  /\ Len(store) = 1
  /\ store[1].weather_temp = None
  /\ fs[1].loc = "archive"

\* The main thread is in the chunk loop of lines 457-489.
InChunks(at) == at \in { "build", "write", "archive" }

\* The files at the positions start + 1 .. start + BATCH_SIZE of the
\* to-process list, as far as the list goes.
ChunkAt(start) ==
  [ n \in 1..(IF Len(files_to_process) - start < BATCH_SIZE
              THEN Len(files_to_process) - start ELSE BATCH_SIZE)
      |-> files_to_process[start + n] ]

(***************************************************************************)
(* C30.  The to-process list is cut into consecutive chunks of at most     *)
(* BATCH_SIZE files in list order (50 in the program): the list holds no   *)
(* file twice and does not change during the pass; the chunk loop starts   *)
(* at position 0 and goes from one chunk to the next BATCH_SIZE places on, *)
(* and the pass returns from the loop only after the last chunk; the step  *)
(* that builds a chunk passes the files of that chunk and no other to the  *)
(* Row Builder; a chunk with a built row is written by one write, which is *)
(* the only step that changes the store, and a chunk without one by none.  *)
(***************************************************************************)
C30_ChunkPartition ==
  [][ /\ pc = "filter" /\ pc' = "build"
           => /\ i' = 0
              /\ \A n, m \in 1..Len(files_to_process') :
                   n # m => files_to_process'[n] # files_to_process'[m]
      /\ InChunks(pc) => i % BATCH_SIZE = 0 /\ i < Len(files_to_process)
      /\ InChunks(pc) /\ InChunks(pc')
           => /\ files_to_process' = files_to_process
              /\ i' # i => /\ i' = i + BATCH_SIZE
                           /\ pc' = "build"
      /\ InChunks(pc) /\ pc' = "returned" => i + BATCH_SIZE >= Len(files_to_process)
      /\ pc = "build" /\ (pc' # pc \/ i' # i) /\ pc' # "exited"
           => /\ \A s \in Slots \ Range(ChunkAt(i)) : fs'[s] = fs[s]
              /\ \A f \in Range(ChunkAt(i)) :
                   HasNoRow(f) => fs'[f].loc = "archive" \/ faults' > faults
              /\ IF \E f \in Range(ChunkAt(i)) : HasRow(f)
                 THEN /\ pc' = "write"
                      /\ uploaded_paths' = SelectSeq(ChunkAt(i), HasRow)
                      /\ new_rows' = RowsOf(uploaded_paths')
                 ELSE pc' \in { "build", "returned" } /\ (pc' = "build" => i' # i)
      /\ pc' = "write" /\ pc # "write" => pc = "build"
      /\ pc = "write" /\ pc' # pc
           => /\ store' = store \/ store' = store \o ToFrame(new_rows)
              /\ pc' = "build" => i' # i
      /\ store' # store => pc = "write"
    ]_vars

\* A list of three files in two chunks: no row could be built for the first
\* chunk, which caused no write, and the row of the second is about to be
\* written.
C30_Witness ==
  /\ pc = "write"
  /\ Len(files_to_process) = BATCH_SIZE + 1
  /\ i = BATCH_SIZE
  /\ store = << >>
  /\ log = { }
  /\ uploaded_paths = ChunkAt(BATCH_SIZE)
  /\ \A n \in 1..BATCH_SIZE : fs[files_to_process[n]].loc = "archive"

\* The main loop has woken and has not cleared the flag yet (lines 572-573).
InWindow(at) == at \in { "debounce", "clear" }

(***************************************************************************)
(* C31.  Triggers raised between the wake of the main loop and its clear   *)
(* of the flag are coalesced.  In that window the flag stays set whatever  *)
(* the watcher and the keyboard thread do, and the loop does not move but  *)
(* by its own steps; the clear leaves the flag unset and starts the one    *)
(* gate check, which only the clear starts; a pass of the loop starts only *)
(* from that gate check, and after it the loop waits until the flag is set *)
(* again.                                                                  *)
(***************************************************************************)
C31_TriggersCoalesced ==
  [][ /\ InWindow(pc) => TRIGGER_EVENT
      /\ InWindow(pc) /\ TRIGGER_EVENT' /\ fsEvents' # fsEvents => pc' = pc
      /\ pc = "debounce" => pc' \in { "debounce", "clear" }
      /\ pc = "clear" => pc' \in { "clear", "gate" }
      /\ pc = "clear" /\ pc' = "gate" => ~TRIGGER_EVENT'
      /\ pc' = "gate" /\ pc \notin { "gate", "gate_sleep" } => pc = "clear"
      /\ pc' = "get_metadata" /\ pc # pc' /\ observing => pc = "gate"
      /\ pc = "gate" => pc' \in { "gate", "gate_sleep", "get_metadata" }
      /\ pc = "gate_sleep" => pc' \in { "gate_sleep", "gate", "wait" }
      /\ pc = "returned" /\ observing => pc' \in { "returned", "wait" }
      /\ pc = "wait" /\ pc' # pc => pc' = "debounce" /\ TRIGGER_EVENT
    ]_vars

\* The loop has woken on a first trigger and two more file events are still
\* to be delivered before the flag is cleared.
C31_Witness ==
  /\ pc = "debounce"
  /\ TRIGGER_EVENT
  /\ fsEvents = 2

(***************************************************************************)
(* clean_asset_code on its own, lines 168-175.  The note reaches it as the *)
(* value json.loads (line 149) made of the extractor's output: a text, or  *)
(* a number when the extractor printed the note unquoted.                  *)
(***************************************************************************)
\* Length of the longest note.
MaxNote == 3

NoteChars == { "a", "A", "b", "1", "-", " " }
NoteTexts == UNION { [ 1..n -> NoteChars ] : n \in 0..MaxNote }
NoteNumbers == { 0, 1, 12 }

PyText(s) == [ type |-> "str", value |-> s ]
PyInt(n) == [ type |-> "int", value |-> n ]

NoteValues == { PyText(s) : s \in NoteTexts } \cup { PyInt(n) : n \in NoteNumbers }

\* not raw_input, line 169: an empty text and the number 0 are falsy.
PyNot(v) == IF v.type = "int" THEN v.value = 0 ELSE v.value = << >>

\* str(raw_input), line 172.
PyStr(v) == IF v.type = "int" THEN Str(v.value) ELSE v.value

\* clean_asset_code for the values json.loads yields; clean_asset_code above
\* is this function on texts.
clean_asset_code_value(raw_input) ==
  IF PyNot(raw_input) THEN None
  ELSE LET clean == KeepAlnum(UpperStr(PyStr(raw_input)))
       IN IF ~Truthy(clean) THEN None ELSE clean

InitAsset ==
  /\ Program(0, "clean_asset_code")
  /\ raw_ts \in NoteValues
  /\ row = None
  /\ NoEventSeen
  /\ NoDiskSeen
  /\ NoWeatherCall

\* The call returns the asset code, or None.
CallCleanAssetCode ==
  /\ pc = "clean_asset_code"
  /\ row' = clean_asset_code_value(raw_ts)
  /\ pc' = "clean_asset_code_returned"
  /\ UNCHANGED << fs, store, TRIGGER_EVENT, fsEvents, observing, pass_vars,
                  gate_locked, faults, raw_ts, observed, event, disk, clock,
                  response >>

\* The function is called again, with the code it returned.
CallAgain ==
  /\ pc = "clean_asset_code_returned"
  /\ row # None
  /\ raw_ts' = PyText(row)
  /\ row' = None
  /\ pc' = "clean_asset_code"
  /\ UNCHANGED << fs, store, TRIGGER_EVENT, fsEvents, observing, pass_vars,
                  gate_locked, faults, observed, event, disk, clock,
                  response >>

NextAsset == CallCleanAssetCode \/ CallAgain

SpecAsset == InitAsset /\ [][NextAsset]_vars

IsAlnum(c) == IsUpperAlpha(c) \/ IsDigit(c)

\* t is s with the case of one letter changed, or with one character that
\* is neither a letter nor a digit put in.
OneEdit(s, t) ==
  \/ /\ Len(t) = Len(s)
     /\ \E n \in 1..Len(s) :
          /\ t[n] # s[n]
          /\ Upper(t[n]) = Upper(s[n])
          /\ \A j \in 1..Len(s) : j # n => t[j] = s[j]
  \/ /\ Len(t) = Len(s) + 1
     /\ \E n \in 1..Len(t) :
          /\ ~IsAlnum(Upper(t[n]))
          /\ s = SubSeq(t, 1, n - 1) \o SubSeq(t, n + 1, Len(t))

\* The result of one returned call is the normal form of its input.
Normalized(input, result) ==
  /\ result = SelectSeq(UpperStr(PyStr(input)), IsAlnum)
  /\ result # None => clean_asset_code_value(PyText(result)) = result
  /\ \A other \in NoteValues :
       OneEdit(PyStr(input), PyStr(other)) \/ OneEdit(PyStr(other), PyStr(input))
         => clean_asset_code_value(other) = result

\* C32: clean_asset_code returns its input in upper case without the
\* characters outside A-Z and 0-9 (None when nothing is left), returns its
\* own result unchanged, and returns the same code for two notes that differ
\* in the case of a letter or in a punctuation character.
C32_NormalizeAsset ==
  pc = "clean_asset_code_returned" => Normalized(raw_ts, row)

\* The same for the notes that reach the function as texts.
C32_NormalizeAssetOfText ==
  pc = "clean_asset_code_returned" /\ raw_ts.type = "str"
    => /\ row = SelectSeq(UpperStr(raw_ts.value), IsAlnum)
       /\ row # None => clean_asset_code_value(PyText(row)) = row
       /\ \A s \in NoteTexts :
            OneEdit(raw_ts.value, s) \/ OneEdit(s, raw_ts.value)
              => clean_asset_code_value(PyText(s)) = row

C32_Witness ==
  /\ pc = "clean_asset_code_returned"
  /\ raw_ts = PyText(<< "a", "-", "1" >>)
  /\ row = << "A", "1" >>

(***************************************************************************)
(* C33.  No trigger is lost.                                               *)
(***************************************************************************)
\* wait_for_folder_stability gives up: the while of line 322 ends when the
\* timeout of 15 seconds has passed.
GateTimeout == GateSleep /\ pc' = "wait"

\* Number of files of the program looked at for what it does eventually.
MaxLive == 2

\* An image file appears at one of the first paths, its writer possibly
\* still holding it open; a running observer queues the create event.
DropLive ==
  \E s \in 1..MaxLive, kind \in LoopKinds, held \in BOOLEAN :
    /\ fs[s].loc = "none"
    /\ fs' = Put(s, kind, held)
    /\ fsEvents' = IF observing THEN fsEvents + 1 ELSE fsEvents
    /\ UNCHANGED << alone_vars, store, pc, TRIGGER_EVENT, observing, pass_vars, gate_locked, faults >>

\* The whole program over these files, with key presses at any time.
NextLive ==
  \/ Startup \/ Loop \/ Pipeline
  \/ HandleEvent \/ ManualTrigger
  \/ DropLive \/ Release \/ Restart

\* The main thread is never starved, the observer thread delivers every
\* event it has queued, and the gate does not poll for ever.
SpecLoopLive ==
  /\ InitLoop
  /\ [][NextLive]_vars
  /\ WF_vars(MainThread)
  /\ WF_vars(HandleEvent)
  /\ SF_vars(GateTimeout)

\* C33: whenever the flag is set (by the observer thread or the keyboard
\* thread, wherever the main thread is), the main thread later clears it and
\* enters a Stability Gate check; the flag is taken down by nothing but the
\* clear of line 573, which is followed by the gate of line 574.
C33_NoTriggerLost ==
  /\ [][ TRIGGER_EVENT /\ ~TRIGGER_EVENT' => pc = "clear" /\ pc' = "gate" ]_vars
  /\ TRIGGER_EVENT ~> (pc = "gate" /\ ~TRIGGER_EVENT)

\* The flag is set while a pass of the loop filters its files.
C33_Witness ==
  /\ pc = "filter"
  /\ observing
  /\ TRIGGER_EVENT

(***************************************************************************)
(* C34.  A file that appears between the metadata scan (line 370) and the  *)
(* listing of the files (line 402).                                        *)
(***************************************************************************)
\* The pass has mapped the metadata and not returned yet.
Mapped(at) == at \in { "query", "filter", "build", "write", "archive" }

\* C34: a file of the watched tree that has no entry in the metadata mapping
\* of the running pass is left in the tree by every step of that pass.
C34_LateFileLeftInPlace ==
  [][ \A s \in Slots :
        Mapped(pc) /\ fs[s].loc = "watched" /\ s \notin meta_dict
          => fs'[s].loc = "watched"
    ]_vars

(***************************************************************************)
(* C35.  Archiving a file as a duplicate drops no capture.                 *)
(***************************************************************************)
\* The scanned files the filter of the running pass archived as duplicates:
\* they are in the archive and were not put on the to-process list.
DuplicateArchived ==
  { s \in meta_dict : fs[s].loc = "archive" /\ s \notin Range(files_to_process) }

\* The store holds a row with the signature, or a file of the watched tree
\* has it.
Held(rows, files, sig) ==
  \/ \E n \in 1..Len(rows) : RowSig(rows[n]) = sig
  \/ \E t \in Slots : files[t].loc = "watched" /\ KindSig[files[t].kind] = sig

\* C35: when a pass ends, for every file it archived as a duplicate the
\* store holds a row with the file's signature or a file with that
\* signature is still in the watched tree.
C35_DuplicateNeverDropsCapture ==
  [][ /\ pc' = "returned" /\ pc \in { "build", "write", "archive" }
           => \A s \in DuplicateArchived : Held(store', fs', KindSig[fs[s].kind])
      /\ pc' = "returned" /\ pc = "filter"
           => \A s \in Duplicates :
                fs'[s].loc = "archive" => Held(store', fs', KindSig[fs[s].kind])
    ]_vars

(***************************************************************************)
(* C36.  The filter's key and the stored timestamp.                        *)
(***************************************************************************)
\* The timestamp of the Signature get_existing_signatures (lines 108-112)
\* reads back from the store for a row process_image built.
StoredTs(built) == RowSig(ToFrame(built)[1])[2]

\* C36: for every raw timestamp process_image builds a row from, the
\* timestamp of the signature the filter computes for the file (line 409) is
\* the timestamp text read back from the store for that row.
C36_FilterKeyIsStoredKey ==
  pc = "process_image_returned" /\ row # None
    => FilterTs(EntryOf(raw_ts)) = StoredTs(row)

\* The same for the raw timestamps written YYYY:MM:DD HH:MM:SS.
C36_ColonKeyIsStoredKey ==
  pc = "process_image_returned" /\ row # None /\ WrittenAs(Take(raw_ts, 19), ":")
    => FilterTs(EntryOf(raw_ts)) = StoredTs(row)

(***************************************************************************)
(* C37.  A file whose row was written and whose move to the archive        *)
(* failed.                                                                 *)
(***************************************************************************)
\* The scanned files of the tree that have a row in the store.
UploadedLeft == { f \in Watched \cap meta_dict : RowsOfFile(store, f) # { } }

\* get_existing_signatures logged its warning (line 116) in this pass.
QueryFailed == "db_warning" \in log

\* The pass goes on after the move of one uploaded file (lines 486-487).
GoesOn ==
  /\ pc' \in { "archive", "build", "returned" }
  /\ k + 1 < Len(uploaded_paths) => pc' = "archive" /\ k' = k + 1

\* C37: a move that fails after the write of the chunk leaves the file in
\* the watched tree and the pass goes on with the next file; a later pass
\* whose query succeeds does not forward a file that has a row in the store
\* but hands it to the archive, and appends no second row for it.
C37_FailedMoveRetriedAsDuplicate ==
  [][ /\ pc = "archive" /\ (pc' # pc \/ k' # k) /\ pc' # "exited"
           => /\ GoesOn
              /\ fs'[uploaded_paths[k + 1]].loc # "archive"
                   => fs'[uploaded_paths[k + 1]] = fs[uploaded_paths[k + 1]]
      /\ pc = "filter" /\ pc' \in { "build", "returned" } /\ ~QueryFailed
           => \A f \in UploadedLeft :
                /\ f \notin Range(files_to_process')
                /\ fs'[f].loc = "archive" \/ faults' > faults
      /\ pc = "write" /\ ~QueryFailed
           => \A n \in Appended : RowsOfFile(store, store'[n].Filename) = { }
    ]_vars

\* The same for the files dated YYYY:MM:DD.
C37_ColonRetriedAsDuplicate ==
  [][ /\ pc = "filter" /\ pc' \in { "build", "returned" } /\ ~QueryFailed
           => \A f \in UploadedLeft :
                fs[f].kind = "colon"
                  => /\ f \notin Range(files_to_process')
                     /\ fs'[f].loc = "archive" \/ faults' > faults
      /\ pc = "write" /\ ~QueryFailed
           => \A n \in Appended :
                fs[store'[n].Filename].kind = "colon"
                  => RowsOfFile(store, store'[n].Filename) = { }
    ]_vars

\* A pass whose query succeeded filters a tree with a file dated YYYY:MM:DD
\* whose row is in the store: its move failed in an earlier pass.
C37_Witness ==
  /\ pc = "filter"
  /\ ~QueryFailed
  /\ \E f \in UploadedLeft : fs[f].kind = "colon"
  /\ faults > 0

(***************************************************************************)
(* C38.  A file created while the startup pass runs.                       *)
(***************************************************************************)
\* The startup pass (line 560) has listed the files and has not returned:
\* the observer is started only after it (lines 562-564).
StartupPassListed == ~observing /\ pc \in { "build", "write", "archive" }

\* The files created since the running pass listed the tree.
CreatedSinceListing ==
  { s \in Watched : s \notin meta_dict /\ s \notin Range(files_to_process) }

\* C38: a file created in the watched tree after the startup pass listed
\* the files is archived by a later pass, whether or not a file event or a
\* key press follows.
C38_StartupLateFileHandled ==
  \A s \in 1..MaxLive :
    (StartupPassListed /\ s \in CreatedSinceListing) ~> (fs[s].loc = "archive")

====
